---- MODULE Spec2Model ----
(***************************************************************************)
(* A model of the paradox detection pipeline of src/build/lib/src/agents.py *)
(* and of its command line entry point src/build/lib/run.py.                *)
(*                                                                         *)
(* A Python str is a sequence of one-character strings, so that strip,      *)
(* replace, find, the brace scan and the JSON grammar work on characters    *)
(* as the code does.  A JSON value (what json.loads returns) is a record    *)
(* with the fields t (its Python type), s (the characters of a str), n (the *)
(* number of an int, 0/1 of a bool), items (the elements of a list) and     *)
(* pairs (the entries of a dict, in insertion order).                       *)
(***************************************************************************)
EXTENDS Integers, Sequences, FiniteSets, TLC

VARIABLES
    ex_pc,        \* extractor harness: "idle" | "ready" | "done"
    ex_mode,      \* how ex_text was made: "none" | "dumps" | "wrapped" | "raw"
    ex_target,    \* the mapping serialized into ex_text (modes dumps, wrapped)
    ex_text,      \* the text handed to _extract_json_dict
    ex_result,    \* what _extract_json_dict did with ex_text
    ch_pc,        \* one chat call: "idle" | "sent" | "done"
    ch_config,    \* self.config of the client: api_key, default_temperature
    ch_requests,  \* the requests sent so far: the temperature of each payload
    ch_transport, \* what the network answered to the request
    ch_result,    \* what chat returned or raised
    rp_first,     \* a build of a report: its inputs and the report
    rp_second,    \* a later build, on inputs near those of the first
    fm_pc,        \* format harness: "idle" | "ready" | "done"
    fm_report,    \* the report handed to format_report
    fm_text,      \* the text format_report returned
    an_pc,        \* analyze: "none" (in main, before the call) | "call" | "wait" | "extract" | "build" | "done" | "raised"
    an_detector,  \* self of analyze: the client configuration and output_language
    an_user_input, \* the statement analyze was called with
    an_calls,     \* the client.chat calls issued so far, with their prompts
    an_answers,   \* what the network answered to the request of each call
    an_raw,       \* what the last chat call returned or raised
    an_results,   \* the objects extracted so far: s1_knowledge, phase_1, phase_2, phase_3
    an_outcome,   \* what analyze returned (the report) or raised
    nz_pc,        \* normalizer harness: "idle" | "done"
    nz_fn,        \* the function that was run: "none" | "_as_string_list" | "_build_report"
    nz_arg,       \* the value the function was given
    nz_result,    \* what the function returned
    cc_detector,  \* the detector both calls use: its client configuration and output_language
    cc_pc,        \* of each call: "call" | "wait" | "build" | "done" | "raised"
    cc_requests,  \* of each call: the chat calls it issued, with the temperature of the payload
    cc_answers,   \* of each call: what the network answered to its requests
    cc_results,   \* of each call: the objects extracted so far
    cc_outcome,   \* of each call: what analyze returned (the report) or raised
    cc_chat,      \* the direct chat call: its position, temperature argument and payload temperature
    cc_overlap,   \* whether a call issued a request while the other was in flight
    mn_pc,        \* main: "start" | "load" | "analyze" | "raised" | "exit"
    mn_args,      \* the parsed arguments and the statement
    mn_exc,       \* the exception the try block of main raised ("" for none)
    mn_stdout,    \* what main printed, line by line
    mn_exit       \* how main ended: the status returned, or the exception that left it

ex_vars == <<ex_pc, ex_mode, ex_target, ex_text, ex_result>>

ch_vars == <<ch_pc, ch_config, ch_requests, ch_transport, ch_result>>

rp_vars == <<rp_first, rp_second>>

fm_vars == <<fm_pc, fm_report, fm_text>>

an_vars ==
    <<an_pc, an_detector, an_user_input, an_calls, an_answers, an_raw, an_results, an_outcome>>

nz_vars == <<nz_pc, nz_fn, nz_arg, nz_result>>

cc_vars == <<cc_detector, cc_pc, cc_requests, cc_answers, cc_results, cc_outcome, cc_chat, cc_overlap>>

mn_vars == <<mn_pc, mn_args, mn_exc, mn_stdout, mn_exit>>

vars == <<ex_vars, ch_vars, rp_vars, fm_vars, an_vars, nz_vars, cc_vars, mn_vars>>

(***************************************************************************)
(* JSON values.                                                            *)
(***************************************************************************)
JNull == [t |-> "null", s |-> <<>>, n |-> 0, items |-> <<>>, pairs |-> <<>>]

JStr(chars) == [t |-> "str", s |-> chars, n |-> 0, items |-> <<>>, pairs |-> <<>>]

JInt(k) == [t |-> "int", s |-> <<>>, n |-> k, items |-> <<>>, pairs |-> <<>>]

JBool(b) == [t |-> "bool", s |-> <<>>, n |-> IF b THEN 1 ELSE 0, items |-> <<>>, pairs |-> <<>>]

JList(elems) == [t |-> "list", s |-> <<>>, n |-> 0, items |-> elems, pairs |-> <<>>]

JDict(entries) == [t |-> "dict", s |-> <<>>, n |-> 0, items |-> <<>>, pairs |-> entries]

Pair(key, value) == [k |-> key, v |-> value]

IsDict(v) == v.t = "dict"

HasKey(entries, key) == \E i \in 1..Len(entries) : entries[i].k = key

\* d[key] = value on a Python dict: a new key is appended, a key already
\* present keeps its place and takes the new value.
DictSet(entries, key, value) ==
    IF HasKey(entries, key)
    THEN [i \in 1..Len(entries) |->
            IF entries[i].k = key THEN Pair(key, value) ELSE entries[i]]
    ELSE Append(entries, Pair(key, value))

\* d.get(key, default)
DictGet(entries, key, default) ==
    IF HasKey(entries, key)
    THEN entries[CHOOSE i \in 1..Len(entries) : entries[i].k = key].v
    ELSE default

(***************************************************************************)
(* Python str operations, on sequences of characters.                      *)
(***************************************************************************)
Whitespace == {" ", "\n"}

\* The grave accent (code point 96), the character of a code fence.  SANY
\* cannot read a string literal that holds it, so it is written by name.
Backtick == "backtick"

Digits == {"0", "1", "2", "3", "4", "5", "6", "7", "8", "9"}

DigitVal == ("0" :> 0) @@ ("1" :> 1) @@ ("2" :> 2) @@ ("3" :> 3) @@ ("4" :> 4)
            @@ ("5" :> 5) @@ ("6" :> 6) @@ ("7" :> 7) @@ ("8" :> 8) @@ ("9" :> 9)

\* text[j-1] of the code (indices here start at 1); "" beyond the end.
At(text, j) == IF j >= 1 /\ j <= Len(text) THEN text[j] ELSE ""

RECURSIVE LStripSet(_, _)
LStripSet(text, chars) ==
    IF text # <<>> /\ Head(text) \in chars THEN LStripSet(Tail(text), chars) ELSE text

RECURSIVE RStripSet(_, _)
RStripSet(text, chars) ==
    IF text # <<>> /\ text[Len(text)] \in chars
    THEN RStripSet(SubSeq(text, 1, Len(text) - 1), chars)
    ELSE text

\* str.strip(chars)
StripSet(text, chars) == RStripSet(LStripSet(text, chars), chars)

\* str.strip()
Strip(text) == StripSet(text, Whitespace)

\* str.startswith(prefix)
StartsWith(text, prefix) ==
    Len(text) >= Len(prefix) /\ SubSeq(text, 1, Len(prefix)) = prefix

\* str.replace(old, new): every non-overlapping occurrence, left to right.
RECURSIVE Replace(_, _, _)
Replace(text, old, new) ==
    IF Len(text) < Len(old) THEN text
    ELSE IF StartsWith(text, old)
         THEN new \o Replace(SubSeq(text, Len(old) + 1, Len(text)), old, new)
         ELSE <<Head(text)>> \o Replace(Tail(text), old, new)

\* str.find(ch, from): the first index >= from holding ch, 0 where the code gets -1.
RECURSIVE Find(_, _, _)
Find(text, ch, from) ==
    IF from > Len(text) THEN 0
    ELSE IF text[from] = ch THEN from
    ELSE Find(text, ch, from + 1)

\* "".join(chunks)
RECURSIVE Concat(_)
Concat(chunks) == IF chunks = <<>> THEN <<>> ELSE Head(chunks) \o Concat(Tail(chunks))

\* The characters as one TLA+ string.
RECURSIVE Join(_)
Join(text) ==
    IF text = <<>> THEN ""
    ELSE IF Len(text) = 1 THEN text[1]
    ELSE LET half == Len(text) \div 2
         IN  Join(SubSeq(text, 1, half)) \o Join(SubSeq(text, half + 1, Len(text)))

(***************************************************************************)
(* json.loads: the decoder of the standard library, for texts over the     *)
(* modelled characters: objects, arrays, strings (escapes \" \\ \/ \n),    *)
(* non-negative integers, null, true, false, and the whitespace around     *)
(* them.  A result is [ok, val, pos]: pos is the index after the value.    *)
(***************************************************************************)
ParseFail == [ok |-> FALSE, val |-> JNull, pos |-> 0]

ParseOk(value, next) == [ok |-> TRUE, val |-> value, pos |-> next]

RECURSIVE SkipWs(_, _)
SkipWs(text, j) ==
    IF At(text, j) \in Whitespace THEN SkipWs(text, j + 1) ELSE j

\* The str whose opening quote is at j - 1; acc holds the decoded characters.
RECURSIVE ScanString(_, _, _)
ScanString(text, j, acc) ==
    LET c == At(text, j)
        e == At(text, j + 1)
    IN  IF c = "" \/ c = "\n" THEN ParseFail
        ELSE IF c = "\"" THEN ParseOk(JStr(acc), j + 1)
        ELSE IF c = "\\"
             THEN IF e \in {"\"", "\\", "/"} THEN ScanString(text, j + 2, Append(acc, e))
                  ELSE IF e = "n" THEN ScanString(text, j + 2, Append(acc, "\n"))
                  ELSE ParseFail
        ELSE ScanString(text, j + 1, Append(acc, c))

RECURSIVE ScanDigits(_, _, _)
ScanDigits(text, j, acc) ==
    IF At(text, j) \in Digits
    THEN ScanDigits(text, j + 1, 10 * acc + DigitVal[At(text, j)])
    ELSE ParseOk(JInt(acc), j)

ParseNumber(text, j) ==
    IF At(text, j) = "0" THEN ParseOk(JInt(0), j + 1) ELSE ScanDigits(text, j, 0)

\* text[j-1 : j-1+k] of the code: a slice stops at the end of the text.
Slice(text, j, k) ==
    IF j > Len(text) THEN <<>>
    ELSE SubSeq(text, j, IF j + k - 1 > Len(text) THEN Len(text) ELSE j + k - 1)

ParseLiteral(text, j) ==
    IF Slice(text, j, 4) = <<"n", "u", "l", "l">> THEN ParseOk(JNull, j + 4)
    ELSE IF Slice(text, j, 4) = <<"t", "r", "u", "e">> THEN ParseOk(JBool(TRUE), j + 4)
    ELSE IF Slice(text, j, 5) = <<"f", "a", "l", "s", "e">> THEN ParseOk(JBool(FALSE), j + 5)
    ELSE ParseFail

RECURSIVE ParseValue(_, _)
RECURSIVE ParseMembers(_, _, _)
RECURSIVE ParseElements(_, _, _)

\* The members of an object from the key at j on; acc holds the entries so far.
ParseMembers(text, j, acc) ==
    IF At(text, j) # "\"" THEN ParseFail
    ELSE LET key == ScanString(text, j + 1, <<>>)
         IN  IF ~key.ok THEN ParseFail
             ELSE LET colon == SkipWs(text, key.pos)
                  IN  IF At(text, colon) # ":" THEN ParseFail
                      ELSE LET value == ParseValue(text, SkipWs(text, colon + 1))
                           IN  IF ~value.ok THEN ParseFail
                               ELSE LET after == SkipWs(text, value.pos)
                                        entries == DictSet(acc, key.val.s, value.val)
                                    IN  IF At(text, after) = "}"
                                        THEN ParseOk(JDict(entries), after + 1)
                                        ELSE IF At(text, after) = ","
                                        THEN ParseMembers(text, SkipWs(text, after + 1), entries)
                                        ELSE ParseFail

\* The elements of an array from the value at j on.
ParseElements(text, j, acc) ==
    LET value == ParseValue(text, j)
    IN  IF ~value.ok THEN ParseFail
        ELSE LET after == SkipWs(text, value.pos)
                 elems == Append(acc, value.val)
             IN  IF At(text, after) = "]" THEN ParseOk(JList(elems), after + 1)
                 ELSE IF At(text, after) = ","
                 THEN ParseElements(text, SkipWs(text, after + 1), elems)
                 ELSE ParseFail

ParseValue(text, j) ==
    LET c == At(text, j)
    IN  IF c = "\"" THEN ScanString(text, j + 1, <<>>)
        ELSE IF c = "{"
             THEN LET first == SkipWs(text, j + 1)
                  IN  IF At(text, first) = "}" THEN ParseOk(JDict(<<>>), first + 1)
                      ELSE ParseMembers(text, first, <<>>)
        ELSE IF c = "["
             THEN LET first == SkipWs(text, j + 1)
                  IN  IF At(text, first) = "]" THEN ParseOk(JList(<<>>), first + 1)
                      ELSE ParseElements(text, first, <<>>)
        ELSE IF c \in Digits THEN ParseNumber(text, j)
        ELSE ParseLiteral(text, j)

\* json.loads(text): ok is FALSE where the code gets json.JSONDecodeError.
JsonLoads(text) ==
    LET value == ParseValue(text, SkipWs(text, 1))
    IN  IF value.ok /\ SkipWs(text, value.pos) = Len(text) + 1
        THEN [ok |-> TRUE, val |-> value.val]
        ELSE [ok |-> FALSE, val |-> JNull]

(***************************************************************************)
(* json.dumps: the encoder of the standard library, with its default       *)
(* separators ", " and ": ".                                               *)
(***************************************************************************)
Ascii ==
    << " ", "!", "\"", "#", "$", "%", "&", "'", "(", ")", "*", "+",
       ",", "-", ".", "/", "0", "1", "2", "3", "4", "5", "6", "7",
       "8", "9", ":", ";", "<", "=", ">", "?", "@", "A", "B", "C",
       "D", "E", "F", "G", "H", "I", "J", "K", "L", "M", "N", "O",
       "P", "Q", "R", "S", "T", "U", "V", "W", "X", "Y", "Z", "[",
       "\\", "]", "^", "_", Backtick, "a", "b", "c", "d", "e", "f", "g",
       "h", "i", "j", "k", "l", "m", "n", "o", "p", "q", "r", "s",
       "t", "u", "v", "w", "x", "y", "z", "{", "|", "}", "~" >>

\* ord(c), for the printable ASCII characters and the line feed.
CodePoint(c) ==
    IF c = "\n" THEN 10 ELSE 31 + (CHOOSE i \in 1..Len(Ascii) : Ascii[i] = c)

\* a < b on Python str: by code points, a proper prefix first.
RECURSIVE StrLess(_, _)
StrLess(a, b) ==
    IF b = <<>> THEN FALSE
    ELSE IF a = <<>> THEN TRUE
    ELSE IF Head(a) = Head(b) THEN StrLess(Tail(a), Tail(b))
    ELSE CodePoint(Head(a)) < CodePoint(Head(b))

\* sorted(d.items()): the entries by key (the keys of a dict are distinct).
RECURSIVE SortPairs(_)
SortPairs(entries) ==
    IF entries = <<>> THEN <<>>
    ELSE LET least == CHOOSE i \in 1..Len(entries) :
                        \A j \in 1..Len(entries) :
                            j = i \/ StrLess(entries[i].k, entries[j].k)
             rest == [j \in 1..(Len(entries) - 1) |->
                        IF j < least THEN entries[j] ELSE entries[j + 1]]
         IN  <<entries[least]>> \o SortPairs(rest)

\* The characters of a str between its quotes.
RECURSIVE EscapeStr(_)
EscapeStr(chars) ==
    IF chars = <<>> THEN <<>>
    ELSE LET c == Head(chars)
         IN  (IF c = "\"" THEN <<"\\", "\"">>
              ELSE IF c = "\\" THEN <<"\\", "\\">>
              ELSE IF c = "\n" THEN <<"\\", "n">>
              ELSE <<c>>) \o EscapeStr(Tail(chars))

RECURSIVE IntToChars(_)
IntToChars(k) ==
    IF k < 10 THEN <<Ascii[17 + k]>>
    ELSE IntToChars(k \div 10) \o <<Ascii[17 + (k % 10)]>>

RECURSIVE DumpsValue(_, _)
RECURSIVE DumpsItems(_, _)
RECURSIVE DumpsPairs(_, _)

DumpsItems(elems, sort_keys) ==
    IF elems = <<>> THEN <<>>
    ELSE DumpsValue(Head(elems), sort_keys)
         \o (IF Len(elems) > 1 THEN <<",", " ">> ELSE <<>>)
         \o DumpsItems(Tail(elems), sort_keys)

DumpsPairs(entries, sort_keys) ==
    IF entries = <<>> THEN <<>>
    ELSE <<"\"">> \o EscapeStr(Head(entries).k) \o <<"\"", ":", " ">>
         \o DumpsValue(Head(entries).v, sort_keys)
         \o (IF Len(entries) > 1 THEN <<",", " ">> ELSE <<>>)
         \o DumpsPairs(Tail(entries), sort_keys)

DumpsValue(v, sort_keys) ==
    IF v.t = "str" THEN <<"\"">> \o EscapeStr(v.s) \o <<"\"">>
    ELSE IF v.t = "int" THEN IntToChars(v.n)
    ELSE IF v.t = "null" THEN <<"n", "u", "l", "l">>
    ELSE IF v.t = "bool"
         THEN (IF v.n = 1 THEN <<"t", "r", "u", "e">> ELSE <<"f", "a", "l", "s", "e">>)
    ELSE IF v.t = "list" THEN <<"[">> \o DumpsItems(v.items, sort_keys) \o <<"]">>
    ELSE <<"{">>
         \o DumpsPairs(IF sort_keys THEN SortPairs(v.pairs) ELSE v.pairs, sort_keys)
         \o <<"}">>

\* json.dumps(v)
JsonDumps(v) == DumpsValue(v, FALSE)

\* "\n" and the indentation of a nesting level, for indent=2.
RECURSIVE NewlineIndent(_)
NewlineIndent(level) ==
    IF level = 0 THEN <<"\n">> ELSE NewlineIndent(level - 1) \o <<" ", " ">>

RECURSIVE DumpsIndent(_, _)
RECURSIVE DumpsIndentItems(_, _)
RECURSIVE DumpsIndentPairs(_, _)

DumpsIndentItems(elems, level) ==
    IF elems = <<>> THEN <<>>
    ELSE NewlineIndent(level) \o DumpsIndent(Head(elems), level)
         \o (IF Len(elems) > 1 THEN <<",">> ELSE <<>>)
         \o DumpsIndentItems(Tail(elems), level)

DumpsIndentPairs(entries, level) ==
    IF entries = <<>> THEN <<>>
    ELSE NewlineIndent(level)
         \o <<"\"">> \o EscapeStr(Head(entries).k) \o <<"\"", ":", " ">>
         \o DumpsIndent(Head(entries).v, level)
         \o (IF Len(entries) > 1 THEN <<",">> ELSE <<>>)
         \o DumpsIndentPairs(Tail(entries), level)

\* json.dumps(v, ensure_ascii=False, indent=2), v written at nesting level.
DumpsIndent(v, level) ==
    IF v.t = "list"
    THEN IF v.items = <<>> THEN <<"[", "]">>
         ELSE <<"[">> \o DumpsIndentItems(v.items, level + 1) \o NewlineIndent(level) \o <<"]">>
    ELSE IF v.t = "dict"
    THEN IF v.pairs = <<>> THEN <<"{", "}">>
         ELSE <<"{">> \o DumpsIndentPairs(v.pairs, level + 1) \o NewlineIndent(level) \o <<"}">>
    ELSE DumpsValue(v, FALSE)

\* a == b on the values json.loads returns: dicts compare without order.
RECURSIVE PyEq(_, _)
PyEq(a, b) ==
    /\ a.t = b.t
    /\ a.s = b.s
    /\ a.n = b.n
    /\ Len(a.items) = Len(b.items)
    /\ \A i \in 1..Len(a.items) : PyEq(a.items[i], b.items[i])
    /\ Len(a.pairs) = Len(b.pairs)
    /\ \A i \in 1..Len(a.pairs) :
           /\ HasKey(b.pairs, a.pairs[i].k)
           /\ PyEq(a.pairs[i].v, DictGet(b.pairs, a.pairs[i].k, JNull))

(***************************************************************************)
(* _extract_json_dict (agents.py 86-118).                                  *)
(***************************************************************************)
Fence == <<Backtick, Backtick, Backtick>>

FenceJson == <<Backtick, Backtick, Backtick, "j", "s", "o", "n">>

\* Nothing returned or raised yet.
NoResult == [kind |-> "none", val |-> JNull, text |-> <<>>]

Returned(value) == [kind |-> "return", val |-> value, text |-> <<>>]

RaisedValueError(text) == [kind |-> "ValueError", val |-> JNull, text |-> text]

\* Lines 88-90: the text the parse and the scan work on.
Cleaned(text) ==
    LET cleaned == Replace(Strip(text), FenceJson, Fence)
    IN  IF StartsWith(cleaned, Fence) THEN Strip(StripSet(cleaned, {Backtick})) ELSE cleaned

\* The direct parse without its isinstance check.
DirectParseAny(cleaned) ==
    LET parsed == JsonLoads(cleaned)
    IN  [found |-> parsed.ok, val |-> parsed.val]

\* Lines 92-97: the whole cleaned text as JSON; found only for a dict.
DirectParse(cleaned) ==
    LET parsed == JsonLoads(cleaned)
    IN  [found |-> parsed.ok /\ IsDict(parsed.val), val |-> parsed.val]

\* The scan started at the last brace instead of the first.
RECURSIVE FirstStartRightmost(_)
FirstStartRightmost(cleaned) ==
    IF cleaned = <<>> THEN 0
    ELSE IF cleaned[Len(cleaned)] = "{" THEN Len(cleaned)
    ELSE FirstStartRightmost(SubSeq(cleaned, 1, Len(cleaned) - 1))

\* Line 99: where the scan starts.
FirstStart(cleaned) == Find(cleaned, "{", 1)

\* Line 116: where the scan resumes once the candidate at start is given up.
NextStart(cleaned, start) == Find(cleaned, "{", start + 1)

\* Lines 101-115: the for loop over idx for one start, at idx with the depth
\* counted so far; found is FALSE when the loop ends or breaks with no return.
RECURSIVE ScanCandidate(_, _, _, _)
ScanCandidate(cleaned, start, idx, depth) ==
    IF idx > Len(cleaned) THEN [found |-> FALSE, val |-> JNull]
    ELSE IF cleaned[idx] = "{" THEN ScanCandidate(cleaned, start, idx + 1, depth + 1)
    ELSE IF cleaned[idx] = "}"
         THEN IF depth - 1 = 0
              THEN LET parsed == JsonLoads(SubSeq(cleaned, start, idx))
                   IN  IF ~parsed.ok THEN [found |-> FALSE, val |-> JNull]
                       ELSE IF IsDict(parsed.val) THEN [found |-> TRUE, val |-> parsed.val]
                       ELSE ScanCandidate(cleaned, start, idx + 1, depth - 1)
              ELSE ScanCandidate(cleaned, start, idx + 1, depth - 1)
    ELSE ScanCandidate(cleaned, start, idx + 1, depth)

\* Lines 100-118: the while loop over the starts; start = 0 is the -1 of the code.
RECURSIVE ScanFrom(_, _, _)
ScanFrom(cleaned, start, text) ==
    IF start = 0 THEN RaisedValueError(text)
    ELSE LET candidate == ScanCandidate(cleaned, start, start, 0)
         IN  IF candidate.found THEN Returned(candidate.val)
             ELSE ScanFrom(cleaned, NextStart(cleaned, start), text)

ExtractJsonDict(text) ==
    LET cleaned == Cleaned(text)
        direct == DirectParse(cleaned)
    IN  IF direct.found THEN Returned(direct.val)
        ELSE ScanFrom(cleaned, FirstStart(cleaned), text)

(***************************************************************************)
(* OpenAICompatClient.chat (agents.py 35-83).                              *)
(***************************************************************************)
\* The keys of the response, of the stage results and of the report.
K ==
    [ choices |-> <<"c", "h", "o", "i", "c", "e", "s">>,
      message |-> <<"m", "e", "s", "s", "a", "g", "e">>,
      content |-> <<"c", "o", "n", "t", "e", "n", "t">>,
      report_id |-> <<"r", "e", "p", "o", "r", "t", "_", "i", "d">>,
      logical_breakdown |-> <<"l", "o", "g", "i", "c", "a", "l", "_", "b", "r", "e", "a", "k", "d", "o", "w", "n">>,
      primary_goal |-> <<"p", "r", "i", "m", "a", "r", "y", "_", "g", "o", "a", "l">>,
      core_variables |-> <<"c", "o", "r", "e", "_", "v", "a", "r", "i", "a", "b", "l", "e", "s">>,
      retrieved_internal_knowledge |-> <<"r", "e", "t", "r", "i", "e", "v", "e", "d", "_", "i", "n", "t", "e", "r", "n", "a", "l", "_", "k", "n", "o", "w", "l", "e", "d", "g", "e">>,
      internal_knowledge_used |-> <<"i", "n", "t", "e", "r", "n", "a", "l", "_", "k", "n", "o", "w", "l", "e", "d", "g", "e", "_", "u", "s", "e", "d">>,
      knowledge_gaps |-> <<"k", "n", "o", "w", "l", "e", "d", "g", "e", "_", "g", "a", "p", "s">>,
      hidden_assumptions |-> <<"h", "i", "d", "d", "e", "n", "_", "a", "s", "s", "u", "m", "p", "t", "i", "o", "n", "s">>,
      reality_gaps |-> <<"r", "e", "a", "l", "i", "t", "y", "_", "g", "a", "p", "s">>,
      stress_test_results |-> <<"s", "t", "r", "e", "s", "s", "_", "t", "e", "s", "t", "_", "r", "e", "s", "u", "l", "t", "s">>,
      name |-> <<"n", "a", "m", "e">>,
      result |-> <<"r", "e", "s", "u", "l", "t">>,
      goal_impact |-> <<"g", "o", "a", "l", "_", "i", "m", "p", "a", "c", "t">>,
      paradox_diagnosis |-> <<"p", "a", "r", "a", "d", "o", "x", "_", "d", "i", "a", "g", "n", "o", "s", "i", "s">>,
      type |-> <<"t", "y", "p", "e">>,
      reasoning |-> <<"r", "e", "a", "s", "o", "n", "i", "n", "g">>,
      contradiction_path |-> <<"c", "o", "n", "t", "r", "a", "d", "i", "c", "t", "i", "o", "n", "_", "p", "a", "t", "h">>,
      suggested_mitigation |-> <<"s", "u", "g", "g", "e", "s", "t", "e", "d", "_", "m", "i", "t", "i", "g", "a", "t", "i", "o", "n">>,
      raw_phases |-> <<"r", "a", "w", "_", "p", "h", "a", "s", "e", "s">>,
      s1_knowledge_retrieval |-> <<"s", "1", "_", "k", "n", "o", "w", "l", "e", "d", "g", "e", "_", "r", "e", "t", "r", "i", "e", "v", "a", "l">>,
      phase_1 |-> <<"p", "h", "a", "s", "e", "_", "1">>,
      phase_2 |-> <<"p", "h", "a", "s", "e", "_", "2">>,
      phase_3 |-> <<"p", "h", "a", "s", "e", "_", "3">>,
      user_input |-> <<"u", "s", "e", "r", "_", "i", "n", "p", "u", "t">>,
      s1_knowledge |-> <<"s", "1", "_", "k", "n", "o", "w", "l", "e", "d", "g", "e">>,
      stated_goal |-> <<"s", "t", "a", "t", "e", "d", "_", "g", "o", "a", "l">>,
      variables |-> <<"v", "a", "r", "i", "a", "b", "l", "e", "s">>,
      internal_knowledge |-> <<"i", "n", "t", "e", "r", "n", "a", "l", "_", "k", "n", "o", "w", "l", "e", "d", "g", "e">>,
      item |-> <<"i", "t", "e", "m">>,
      branches |-> <<"b", "r", "a", "n", "c", "h", "e", "s">>,
      paradox_type |-> <<"p", "a", "r", "a", "d", "o", "x", "_", "t", "y", "p", "e">>,
      mitigation |-> <<"m", "i", "t", "i", "g", "a", "t", "i", "o", "n">> ]

\* What an operation of the code gives: a value, or the exception it raises.
Value(v) == [exc |-> "", val |-> v]

Raises(kind) == [exc |-> kind, val |-> JNull]

\* v[key] for a str key, on a value json.loads returned.
GetItemKey(v, key) ==
    IF v.t = "dict"
    THEN IF HasKey(v.pairs, key) THEN Value(DictGet(v.pairs, key, JNull)) ELSE Raises("KeyError")
    ELSE Raises("TypeError")

\* v[0]
GetItemZero(v) ==
    IF v.t = "dict" THEN Raises("KeyError")
    ELSE IF v.t = "list"
         THEN IF v.items = <<>> THEN Raises("IndexError") ELSE Value(v.items[1])
    ELSE IF v.t = "str"
         THEN IF v.s = <<>> THEN Raises("IndexError") ELSE Value(JStr(<<v.s[1]>>))
    ELSE Raises("TypeError")

\* v.strip()
StripMethod(v) ==
    IF v.t = "str" THEN Value(JStr(Strip(v.s))) ELSE Raises("AttributeError")

\* Line 79: data["choices"][0]["message"]["content"].strip()
ContentOf(data) ==
    LET choices == GetItemKey(data, K.choices)
        first == GetItemZero(choices.val)
        message == GetItemKey(first.val, K.message)
        content == GetItemKey(message.val, K.content)
    IN  IF choices.exc # "" THEN choices
        ELSE IF first.exc # "" THEN first
        ELSE IF message.exc # "" THEN message
        ELSE IF content.exc # "" THEN content
        ELSE StripMethod(content.val)

\* Line 80: the exceptions the except clause of the parse turns into AgentAPIError.
CaughtByParse == {"KeyError", "IndexError", "TypeError", "JSONDecodeError"}

ChatReturned(text) == [kind |-> "return", text |-> text]

ChatRaised(kind) == [kind |-> kind, text |-> <<>>]

\* Lines 77-83: the completion text of the body raw.
ParseResponse(raw) ==
    LET data == JsonLoads(raw)
        content == IF data.ok THEN ContentOf(data.val) ELSE Raises("JSONDecodeError")
    IN  IF content.exc = "" THEN ChatReturned(content.val.s)
        ELSE IF content.exc \in CaughtByParse THEN ChatRaised("AgentAPIError")
        ELSE ChatRaised(content.exc)

\* What urlopen and resp.read() of lines 67-68 can do: raise HTTPError (a
\* status outside 2xx), raise URLError (the connection failed), raise
\* TimeoutError (the timeout ran out waiting for or reading the response:
\* urllib does not wrap that one in URLError), or give the body.
HttpError == [net |-> "HTTPError", body |-> <<>>]

UrlError == [net |-> "URLError", body |-> <<>>]

ReadTimeout == [net |-> "TimeoutError", body |-> <<>>]

Body(raw) == [net |-> "ok", body |-> raw]

NoTransport == [net |-> "none", body |-> <<>>]

\* Lines 66-83: chat from the answer of the network on.
Receive(transport) ==
    IF transport.net \in {"HTTPError", "URLError"} THEN ChatRaised("AgentAPIError")
    ELSE IF transport.net = "ok" THEN ParseResponse(transport.body)
    ELSE ChatRaised(transport.net)

\* Temperatures, in tenths; NoTemperature is the None of the parameter.
NoTemperature == -1

\* Lines 45-47
ResolvedTemperature(config, temperature) ==
    IF temperature = NoTemperature THEN config.default_temperature ELSE temperature

(***************************************************************************)
(* The answers of the endpoint: every shape around                         *)
(* choices[0].message.content, and bodies that are not JSON.               *)
(***************************************************************************)
ObjectText == <<"{", "\"", "k", "\"", ":", " ", "1", "}">>

ProseText == <<"n", "o", " ", "j", "s", "o", "n">>

ContentPool ==
    { JStr(<<" ">> \o ObjectText \o <<"\n">>), JStr(ProseText), JStr(<<>>),
      JNull, JInt(5), JBool(TRUE), JList(<<>>), JDict(<<>>) }

MessagePool ==
    { JDict(<<Pair(K.content, c)>>) : c \in ContentPool }
        \cup { JDict(<<>>), JNull, JStr(<<"m">>), JList(<<>>) }

ChoicePool ==
    { JDict(<<Pair(K.message, msg)>>) : msg \in MessagePool }
        \cup { JDict(<<>>), JNull, JStr(<<"c">>), JList(<<>>), JInt(1) }

ChoicesPool ==
    { JList(<<c>>) : c \in ChoicePool }
        \cup { JList(<<>>), JDict(<<>>), JNull, JStr(<<"x">>), JStr(<<>>), JInt(0) }

DataPool ==
    { JDict(<<Pair(K.choices, cs)>>) : cs \in ChoicesPool }
        \cup { JDict(<<>>), JList(<<>>), JNull, JStr(<<"x">>), JInt(1) }

Bodies ==
    { JsonDumps(d) : d \in DataPool }
        \cup { <<>>, <<"o", "o", "p", "s">>, <<"{", "\"", "c", "h", "o", "i", "c", "e", "s", "\"">> }

Transports == { HttpError, UrlError, ReadTimeout } \cup { Body(raw) : raw \in Bodies }

ApiKeys == { <<>>, <<"k">> }

Temperatures == { 2, 7 }

\* The configurations a client is made with (ModelAPIConfig is frozen).
Configs == [api_key : ApiKeys, default_temperature : Temperatures]

SomeConfig == [api_key |-> <<"k">>, default_temperature |-> 2]

ChIdle ==
    /\ ch_pc = "idle"
    /\ ch_requests = <<>>
    /\ ch_transport = NoTransport
    /\ ch_result = ChatRaised("none")

\* Lines 42-64: chat up to the request; with an empty key it raises at once.
ChCall ==
    /\ ch_pc = "idle"
    /\ \E temperature \in Temperatures \cup {NoTemperature} :
        IF ch_config.api_key = <<>>
        THEN /\ ch_result' = ChatRaised("AgentAPIError")
             /\ ch_pc' = "done"
             /\ UNCHANGED ch_requests
        ELSE /\ ch_requests' = Append(ch_requests, ResolvedTemperature(ch_config, temperature))
             /\ ch_pc' = "sent"
             /\ UNCHANGED ch_result
    /\ UNCHANGED <<ch_config, ch_transport>>
    /\ UNCHANGED <<ex_vars, rp_vars, fm_vars, an_vars, nz_vars, cc_vars, mn_vars>>

\* Lines 66-83: the answer of the network and what chat makes of it.
ChReceive ==
    /\ ch_pc = "sent"
    /\ \E transport \in Transports :
        /\ ch_transport' = transport
        /\ ch_result' = Receive(transport)
    /\ ch_pc' = "done"
    /\ UNCHANGED <<ch_config, ch_requests>>
    /\ UNCHANGED <<ex_vars, rp_vars, fm_vars, an_vars, nz_vars, cc_vars, mn_vars>>

(***************************************************************************)
(* str(value) and repr(value) of Python, for the values json.loads gives.  *)
(***************************************************************************)
NoneText == <<"N", "o", "n", "e">>

NAText == <<"N", "/", "A">>

\* repr of a str: in single quotes, or in double quotes when the str holds
\* a single quote and no double quote.
RECURSIVE ReprChars(_, _)
ReprChars(text, quote) ==
    IF text = <<>> THEN <<>>
    ELSE LET c == Head(text)
         IN  (IF c = quote \/ c = "\\" THEN <<"\\", c>>
              ELSE IF c = "\n" THEN <<"\\", "n">>
              ELSE <<c>>) \o ReprChars(Tail(text), quote)

ReprStr(text) ==
    LET holds(c) == \E i \in 1..Len(text) : text[i] = c
        quote == IF holds("'") /\ ~holds("\"") THEN "\"" ELSE "'"
    IN  <<quote>> \o ReprChars(text, quote) \o <<quote>>

RECURSIVE PyRepr(_)
RECURSIVE ReprItems(_)
RECURSIVE ReprPairs(_)

ReprItems(elems) ==
    IF elems = <<>> THEN <<>>
    ELSE PyRepr(Head(elems)) \o (IF Len(elems) > 1 THEN <<",", " ">> ELSE <<>>)
         \o ReprItems(Tail(elems))

ReprPairs(entries) ==
    IF entries = <<>> THEN <<>>
    ELSE ReprStr(Head(entries).k) \o <<":", " ">> \o PyRepr(Head(entries).v)
         \o (IF Len(entries) > 1 THEN <<",", " ">> ELSE <<>>)
         \o ReprPairs(Tail(entries))

PyRepr(v) ==
    IF v.t = "str" THEN ReprStr(v.s)
    ELSE IF v.t = "null" THEN NoneText
    ELSE IF v.t = "bool"
         THEN (IF v.n = 1 THEN <<"T", "r", "u", "e">> ELSE <<"F", "a", "l", "s", "e">>)
    ELSE IF v.t = "int" THEN IntToChars(v.n)
    ELSE IF v.t = "list" THEN <<"[">> \o ReprItems(v.items) \o <<"]">>
    ELSE <<"{">> \o ReprPairs(v.pairs) \o <<"}">>

\* str(v)
PyStr(v) == IF v.t = "str" THEN v.s ELSE PyRepr(v)

\* str(v).strip()
StrStrip(v) == Strip(PyStr(v))

(***************************************************************************)
(* The field normalizers (agents.py 121-165).                              *)
(***************************************************************************)
\* A variant whose filter tests the text before it is trimmed.
RECURSIVE StrippedNonEmptyUntrimmedTest(_)
StrippedNonEmptyUntrimmedTest(elems) ==
    IF elems = <<>> THEN <<>>
    ELSE (IF PyStr(Head(elems)) # <<>> THEN <<StrStrip(Head(elems))>> ELSE <<>>)
         \o StrippedNonEmptyUntrimmedTest(Tail(elems))

\* [str(v).strip() for v in value if str(v).strip()]
RECURSIVE StrippedNonEmpty(_)
StrippedNonEmpty(elems) ==
    IF elems = <<>> THEN <<>>
    ELSE (IF StrStrip(Head(elems)) # <<>> THEN <<StrStrip(Head(elems))>> ELSE <<>>)
         \o StrippedNonEmpty(Tail(elems))

\* _as_string_list: a Python list of str, as a sequence of texts.
AsStringList(value) ==
    IF value.t = "list" THEN StrippedNonEmpty(value.items)
    ELSE IF value.t = "null" THEN <<>>
    ELSE IF StrStrip(value) # <<>> THEN <<StrStrip(value)>> ELSE <<>>

\* A variant without the fallback.
TextOrNAWithoutFallback(value) == StrStrip(value)

\* _text_or_na
TextOrNA(value) == IF StrStrip(value) # <<>> THEN StrStrip(value) ELSE NAText

\* merged.extend(_as_string_list(raw)) for raw in legacy.values()
RECURSIVE MergedValues(_)
MergedValues(entries) ==
    IF entries = <<>> THEN <<>>
    ELSE AsStringList(Head(entries).v) \o MergedValues(Tail(entries))

\* _phase_1_to_core_vars
Phase1ToCoreVars(phase_1) ==
    LET vars_list == AsStringList(DictGet(phase_1.pairs, K.core_variables, JNull))
        legacy == DictGet(phase_1.pairs, K.variables, JNull)
    IN  IF vars_list # <<>> THEN vars_list
        ELSE IF legacy.t = "dict" THEN MergedValues(legacy.pairs)
        ELSE AsStringList(legacy)

RECURSIVE KnowledgeItems(_)
KnowledgeItems(raw) ==
    IF raw = <<>> THEN <<>>
    ELSE LET entry == Head(raw)
             text == IF entry.t = "dict"
                     THEN StrStrip(DictGet(entry.pairs, K.item, JStr(<<>>)))
                     ELSE StrStrip(entry)
         IN  (IF text # <<>> THEN <<text>> ELSE <<>>) \o KnowledgeItems(Tail(raw))

\* _s1_internal_knowledge_items
S1InternalKnowledgeItems(s1_result) ==
    LET raw == DictGet(s1_result.pairs, K.internal_knowledge, JNull)
    IN  IF raw.t # "list" THEN AsStringList(raw) ELSE KnowledgeItems(raw.items)

(***************************************************************************)
(* ParadoxDetector._build_report (agents.py 253-316).                      *)
(***************************************************************************)
\* A Python list of str as a JSON value.
StrList(texts) == JList([i \in 1..Len(texts) |-> JStr(texts[i])])

\* A variant of the text that is hashed, without sort_keys=True.
DigestSrcUnsorted(user_input, s1_knowledge, phase_1, phase_2, phase_3) ==
    DumpsValue(JDict(<< Pair(K.user_input, JStr(user_input)),
                        Pair(K.s1_knowledge, s1_knowledge),
                        Pair(K.phase_1, phase_1),
                        Pair(K.phase_2, phase_2),
                        Pair(K.phase_3, phase_3) >>), FALSE)

\* Lines 261-271: the text that is hashed.
DigestSrc(user_input, s1_knowledge, phase_1, phase_2, phase_3) ==
    DumpsValue(JDict(<< Pair(K.user_input, JStr(user_input)),
                        Pair(K.s1_knowledge, s1_knowledge),
                        Pair(K.phase_1, phase_1),
                        Pair(K.phase_2, phase_2),
                        Pair(K.phase_3, phase_3) >>), TRUE)

\* hashlib.sha256(text.encode("utf-8")).hexdigest()[:12] for the texts the
\* model hashes: the values the standard library computes, tabulated.
Sha256Hex12Table ==
    (
    (
    (
    (
    (
    (
    (
    (
    (
    ("{\"phase_1\": {\"k\": 1}, \"phase_2\": {\"k\": 1}, \"phase_3\": {\"k\": 1}, \"s1_knowledge\": {\"k\": 1}, \"user_input\": \"s\"}"
        :> <<"4", "0", "1", "d", "e", "2", "8", "b", "e", "a", "3", "1">>)
    @@
    ("{\"phase_1\": {\"k\": 1}, \"phase_2\": {\"k\": 1}, \"phase_3\": {\"k\": 1}, \"s1_knowledge\": {\"k\": 1}, \"user_input\": \"t\"}"
        :> <<"6", "9", "b", "c", "2", "0", "a", "d", "f", "6", "6", "5">>)
    )
    @@
    (
    ("{\"phase_1\": {\"k\": 1}, \"phase_2\": {\"k\": 1}, \"phase_3\": {\"k\": 1}, \"s1_knowledge\": {}, \"user_input\": \"s\"}"
        :> <<"f", "a", "a", "2", "8", "3", "4", "3", "6", "9", "c", "2">>)
    @@
    ("{\"phase_1\": {\"k\": 1}, \"phase_2\": {\"k\": 1}, \"phase_3\": {\"k\": 1}, \"s1_knowledge\": {}, \"user_input\": \"t\"}"
        :> <<"0", "5", "d", "7", "e", "a", "7", "5", "2", "a", "5", "7">>)
    )
    )
    @@
    (
    (
    ("{\"phase_1\": {\"k\": 1}, \"phase_2\": {\"k\": 1}, \"phase_3\": {}, \"s1_knowledge\": {\"k\": 1}, \"user_input\": \"s\"}"
        :> <<"7", "9", "c", "6", "4", "2", "d", "1", "d", "c", "f", "b">>)
    @@
    ("{\"phase_1\": {\"k\": 1}, \"phase_2\": {\"k\": 1}, \"phase_3\": {}, \"s1_knowledge\": {\"k\": 1}, \"user_input\": \"t\"}"
        :> <<"d", "e", "4", "e", "0", "d", "3", "c", "5", "8", "c", "4">>)
    )
    @@
    (
    ("{\"phase_1\": {\"k\": 1}, \"phase_2\": {\"k\": 1}, \"phase_3\": {}, \"s1_knowledge\": {}, \"user_input\": \"s\"}"
        :> <<"5", "9", "8", "5", "7", "c", "2", "a", "8", "b", "2", "e">>)
    @@
    (
    ("{\"phase_1\": {\"k\": 1}, \"phase_2\": {\"k\": 1}, \"phase_3\": {}, \"s1_knowledge\": {}, \"user_input\": \"t\"}"
        :> <<"1", "b", "4", "7", "e", "e", "2", "f", "4", "e", "7", "b">>)
    @@
    ("{\"phase_1\": {\"k\": 1}, \"phase_2\": {}, \"phase_3\": {\"k\": 1}, \"s1_knowledge\": {\"k\": 1}, \"user_input\": \"s\"}"
        :> <<"3", "6", "c", "3", "d", "9", "1", "d", "7", "4", "1", "f">>)
    )
    )
    )
    )
    @@
    (
    (
    (
    ("{\"phase_1\": {\"k\": 1}, \"phase_2\": {}, \"phase_3\": {\"k\": 1}, \"s1_knowledge\": {\"k\": 1}, \"user_input\": \"t\"}"
        :> <<"5", "a", "d", "f", "9", "d", "0", "a", "b", "4", "8", "6">>)
    @@
    ("{\"phase_1\": {\"k\": 1}, \"phase_2\": {}, \"phase_3\": {\"k\": 1}, \"s1_knowledge\": {}, \"user_input\": \"s\"}"
        :> <<"4", "7", "b", "1", "c", "f", "c", "0", "6", "4", "b", "0">>)
    )
    @@
    (
    ("{\"phase_1\": {\"k\": 1}, \"phase_2\": {}, \"phase_3\": {\"k\": 1}, \"s1_knowledge\": {}, \"user_input\": \"t\"}"
        :> <<"c", "3", "c", "f", "5", "2", "e", "b", "0", "b", "c", "6">>)
    @@
    (
    ("{\"phase_1\": {\"k\": 1}, \"phase_2\": {}, \"phase_3\": {}, \"s1_knowledge\": {\"k\": 1}, \"user_input\": \"s\"}"
        :> <<"5", "e", "0", "a", "1", "6", "2", "9", "a", "9", "f", "3">>)
    @@
    ("{\"phase_1\": {\"k\": 1}, \"phase_2\": {}, \"phase_3\": {}, \"s1_knowledge\": {\"k\": 1}, \"user_input\": \"t\"}"
        :> <<"f", "3", "b", "f", "f", "e", "2", "5", "b", "8", "6", "c">>)
    )
    )
    )
    @@
    (
    (
    ("{\"phase_1\": {\"k\": 1}, \"phase_2\": {}, \"phase_3\": {}, \"s1_knowledge\": {}, \"user_input\": \"s\"}"
        :> <<"b", "4", "f", "e", "9", "6", "6", "a", "e", "8", "8", "e">>)
    @@
    ("{\"phase_1\": {\"k\": 1}, \"phase_2\": {}, \"phase_3\": {}, \"s1_knowledge\": {}, \"user_input\": \"t\"}"
        :> <<"1", "d", "2", "5", "1", "3", "1", "d", "8", "e", "1", "c">>)
    )
    @@
    (
    ("{\"phase_1\": {\"stated_goal\": \" g \"}, \"phase_2\": {\"branches\": [{\"name\": \"b\"}, \"x\"]}, \"phase_3\": {\"contradiction_path\": [\"a\", \" \", \"b\"], \"mitigation\": \"m\", \"paradox_type\": \"Falsidical\", \"reasoning\": \" r \"}, \"s1_knowledge\": {\"knowledge_gaps\": [\"g\"]}, \"user_input\": \"s\"}"
        :> <<"c", "c", "9", "d", "1", "d", "e", "2", "e", "0", "c", "a">>)
    @@
    (
    ("{\"phase_1\": {\"stated_goal\": \" g \"}, \"phase_2\": {\"branches\": [{\"name\": \"b\"}, \"x\"]}, \"phase_3\": {\"contradiction_path\": [\"a\", \" \", \"b\"], \"mitigation\": \"m\", \"paradox_type\": \"Falsidical\", \"reasoning\": \" r \"}, \"s1_knowledge\": {\"knowledge_gaps\": [\"g\"]}, \"user_input\": \"t\"}"
        :> <<"a", "c", "e", "1", "b", "0", "2", "9", "5", "f", "7", "0">>)
    @@
    ("{\"phase_1\": {\"stated_goal\": \" g \"}, \"phase_2\": {\"branches\": [{\"name\": \"b\"}, \"x\"]}, \"phase_3\": {\"contradiction_path\": [\"a\", \" \", \"b\"], \"mitigation\": \"m\", \"paradox_type\": \"Falsidical\", \"reasoning\": \" r \"}, \"s1_knowledge\": {}, \"user_input\": \"s\"}"
        :> <<"4", "d", "6", "3", "a", "2", "5", "7", "a", "e", "e", "b">>)
    )
    )
    )
    )
    )
    @@
    (
    (
    (
    (
    ("{\"phase_1\": {\"stated_goal\": \" g \"}, \"phase_2\": {\"branches\": [{\"name\": \"b\"}, \"x\"]}, \"phase_3\": {\"contradiction_path\": [\"a\", \" \", \"b\"], \"mitigation\": \"m\", \"paradox_type\": \"Falsidical\", \"reasoning\": \" r \"}, \"s1_knowledge\": {}, \"user_input\": \"t\"}"
        :> <<"9", "d", "6", "2", "c", "f", "a", "f", "f", "9", "d", "9">>)
    @@
    ("{\"phase_1\": {\"stated_goal\": \" g \"}, \"phase_2\": {\"branches\": [{\"name\": \"b\"}, \"x\"]}, \"phase_3\": {\"n\": 10106858, \"paradox_type\": \"Antinomy\"}, \"s1_knowledge\": {\"knowledge_gaps\": [\"g\"]}, \"user_input\": \"s\"}"
        :> <<"2", "4", "b", "f", "1", "d", "9", "2", "5", "6", "2", "d">>)
    )
    @@
    (
    ("{\"phase_1\": {\"stated_goal\": \" g \"}, \"phase_2\": {\"branches\": [{\"name\": \"b\"}, \"x\"]}, \"phase_3\": {\"n\": 10106858, \"paradox_type\": \"Antinomy\"}, \"s1_knowledge\": {\"knowledge_gaps\": [\"g\"]}, \"user_input\": \"t\"}"
        :> <<"6", "d", "e", "2", "8", "a", "9", "5", "4", "8", "c", "f">>)
    @@
    ("{\"phase_1\": {\"stated_goal\": \" g \"}, \"phase_2\": {\"branches\": [{\"name\": \"b\"}, \"x\"]}, \"phase_3\": {\"n\": 10106858, \"paradox_type\": \"Antinomy\"}, \"s1_knowledge\": {}, \"user_input\": \"s\"}"
        :> <<"9", "5", "1", "4", "4", "e", "9", "6", "0", "7", "9", "b">>)
    )
    )
    @@
    (
    (
    ("{\"phase_1\": {\"stated_goal\": \" g \"}, \"phase_2\": {\"branches\": [{\"name\": \"b\"}, \"x\"]}, \"phase_3\": {\"n\": 10106858, \"paradox_type\": \"Antinomy\"}, \"s1_knowledge\": {}, \"user_input\": \"t\"}"
        :> <<"6", "0", "2", "a", "a", "0", "b", "f", "c", "1", "7", "9">>)
    @@
    ("{\"phase_1\": {\"stated_goal\": \" g \"}, \"phase_2\": {\"branches\": [{\"name\": \"b\"}, \"x\"]}, \"phase_3\": {\"n\": 13359876, \"paradox_type\": \"Antinomy\"}, \"s1_knowledge\": {\"knowledge_gaps\": [\"g\"]}, \"user_input\": \"s\"}"
        :> <<"7", "a", "3", "b", "b", "8", "3", "3", "f", "9", "1", "c">>)
    )
    @@
    (
    ("{\"phase_1\": {\"stated_goal\": \" g \"}, \"phase_2\": {\"branches\": [{\"name\": \"b\"}, \"x\"]}, \"phase_3\": {\"n\": 13359876, \"paradox_type\": \"Antinomy\"}, \"s1_knowledge\": {\"knowledge_gaps\": [\"g\"]}, \"user_input\": \"t\"}"
        :> <<"6", "c", "0", "c", "4", "9", "b", "5", "3", "6", "8", "6">>)
    @@
    (
    ("{\"phase_1\": {\"stated_goal\": \" g \"}, \"phase_2\": {\"branches\": [{\"name\": \"b\"}, \"x\"]}, \"phase_3\": {\"n\": 13359876, \"paradox_type\": \"Antinomy\"}, \"s1_knowledge\": {}, \"user_input\": \"s\"}"
        :> <<"0", "f", "2", "f", "8", "b", "f", "d", "7", "a", "e", "d">>)
    @@
    ("{\"phase_1\": {\"stated_goal\": \" g \"}, \"phase_2\": {\"branches\": [{\"name\": \"b\"}, \"x\"]}, \"phase_3\": {\"n\": 13359876, \"paradox_type\": \"Antinomy\"}, \"s1_knowledge\": {}, \"user_input\": \"t\"}"
        :> <<"5", "a", "6", "2", "2", "e", "b", "7", "f", "6", "4", "e">>)
    )
    )
    )
    )
    @@
    (
    (
    (
    ("{\"phase_1\": {\"stated_goal\": \" g \"}, \"phase_2\": {\"branches\": [{\"name\": \"b\"}, \"x\"]}, \"phase_3\": {\"paradox_type\": \" \"}, \"s1_knowledge\": {\"knowledge_gaps\": [\"g\"]}, \"user_input\": \"s\"}"
        :> <<"f", "0", "c", "6", "d", "4", "3", "1", "c", "4", "6", "7">>)
    @@
    ("{\"phase_1\": {\"stated_goal\": \" g \"}, \"phase_2\": {\"branches\": [{\"name\": \"b\"}, \"x\"]}, \"phase_3\": {\"paradox_type\": \" \"}, \"s1_knowledge\": {\"knowledge_gaps\": [\"g\"]}, \"user_input\": \"t\"}"
        :> <<"3", "8", "2", "d", "8", "3", "0", "1", "f", "9", "4", "5">>)
    )
    @@
    (
    ("{\"phase_1\": {\"stated_goal\": \" g \"}, \"phase_2\": {\"branches\": [{\"name\": \"b\"}, \"x\"]}, \"phase_3\": {\"paradox_type\": \" \"}, \"s1_knowledge\": {}, \"user_input\": \"s\"}"
        :> <<"1", "0", "2", "e", "b", "6", "e", "d", "5", "4", "9", "1">>)
    @@
    (
    ("{\"phase_1\": {\"stated_goal\": \" g \"}, \"phase_2\": {\"branches\": [{\"name\": \"b\"}, \"x\"]}, \"phase_3\": {\"paradox_type\": \" \"}, \"s1_knowledge\": {}, \"user_input\": \"t\"}"
        :> <<"f", "3", "c", "e", "f", "2", "6", "c", "0", "2", "0", "6">>)
    @@
    ("{\"phase_1\": {\"stated_goal\": \" g \"}, \"phase_2\": {\"branches\": [{\"name\": \"b\"}, \"x\"]}, \"phase_3\": {\"paradox_type\": \" Veridical \"}, \"s1_knowledge\": {\"knowledge_gaps\": [\"g\"]}, \"user_input\": \"s\"}"
        :> <<"3", "3", "9", "2", "a", "e", "1", "2", "c", "9", "4", "8">>)
    )
    )
    )
    @@
    (
    (
    ("{\"phase_1\": {\"stated_goal\": \" g \"}, \"phase_2\": {\"branches\": [{\"name\": \"b\"}, \"x\"]}, \"phase_3\": {\"paradox_type\": \" Veridical \"}, \"s1_knowledge\": {\"knowledge_gaps\": [\"g\"]}, \"user_input\": \"t\"}"
        :> <<"f", "f", "8", "0", "e", "8", "a", "d", "7", "4", "b", "d">>)
    @@
    ("{\"phase_1\": {\"stated_goal\": \" g \"}, \"phase_2\": {\"branches\": [{\"name\": \"b\"}, \"x\"]}, \"phase_3\": {\"paradox_type\": \" Veridical \"}, \"s1_knowledge\": {}, \"user_input\": \"s\"}"
        :> <<"c", "f", "6", "e", "d", "2", "9", "4", "7", "a", "e", "d">>)
    )
    @@
    (
    ("{\"phase_1\": {\"stated_goal\": \" g \"}, \"phase_2\": {\"branches\": [{\"name\": \"b\"}, \"x\"]}, \"phase_3\": {\"paradox_type\": \" Veridical \"}, \"s1_knowledge\": {}, \"user_input\": \"t\"}"
        :> <<"4", "8", "f", "8", "0", "6", "e", "f", "b", "1", "0", "3">>)
    @@
    (
    ("{\"phase_1\": {\"stated_goal\": \" g \"}, \"phase_2\": {\"branches\": [{\"name\": \"b\"}, \"x\"]}, \"phase_3\": {\"paradox_type\": \"Liar\"}, \"s1_knowledge\": {\"knowledge_gaps\": [\"g\"]}, \"user_input\": \"s\"}"
        :> <<"5", "6", "9", "a", "0", "f", "1", "6", "e", "a", "5", "0">>)
    @@
    ("{\"phase_1\": {\"stated_goal\": \" g \"}, \"phase_2\": {\"branches\": [{\"name\": \"b\"}, \"x\"]}, \"phase_3\": {\"paradox_type\": \"Liar\"}, \"s1_knowledge\": {\"knowledge_gaps\": [\"g\"]}, \"user_input\": \"t\"}"
        :> <<"d", "8", "c", "1", "d", "6", "b", "6", "a", "0", "b", "c">>)
    )
    )
    )
    )
    )
    )
    @@
    (
    (
    (
    (
    (
    ("{\"phase_1\": {\"stated_goal\": \" g \"}, \"phase_2\": {\"branches\": [{\"name\": \"b\"}, \"x\"]}, \"phase_3\": {\"paradox_type\": \"Liar\"}, \"s1_knowledge\": {}, \"user_input\": \"s\"}"
        :> <<"1", "d", "a", "9", "2", "7", "e", "5", "1", "9", "4", "e">>)
    @@
    ("{\"phase_1\": {\"stated_goal\": \" g \"}, \"phase_2\": {\"branches\": [{\"name\": \"b\"}, \"x\"]}, \"phase_3\": {\"paradox_type\": \"Liar\"}, \"s1_knowledge\": {}, \"user_input\": \"t\"}"
        :> <<"3", "8", "5", "f", "9", "3", "3", "0", "5", "8", "3", "1">>)
    )
    @@
    (
    ("{\"phase_1\": {\"stated_goal\": \" g \"}, \"phase_2\": {\"branches\": [{\"name\": \"b\"}, \"x\"]}, \"phase_3\": {\"paradox_type\": 5}, \"s1_knowledge\": {\"knowledge_gaps\": [\"g\"]}, \"user_input\": \"s\"}"
        :> <<"5", "a", "5", "9", "7", "4", "9", "6", "5", "4", "7", "a">>)
    @@
    ("{\"phase_1\": {\"stated_goal\": \" g \"}, \"phase_2\": {\"branches\": [{\"name\": \"b\"}, \"x\"]}, \"phase_3\": {\"paradox_type\": 5}, \"s1_knowledge\": {\"knowledge_gaps\": [\"g\"]}, \"user_input\": \"t\"}"
        :> <<"2", "1", "3", "8", "1", "4", "2", "3", "3", "d", "6", "4">>)
    )
    )
    @@
    (
    (
    ("{\"phase_1\": {\"stated_goal\": \" g \"}, \"phase_2\": {\"branches\": [{\"name\": \"b\"}, \"x\"]}, \"phase_3\": {\"paradox_type\": 5}, \"s1_knowledge\": {}, \"user_input\": \"s\"}"
        :> <<"a", "0", "0", "4", "0", "4", "b", "5", "2", "5", "d", "5">>)
    @@
    ("{\"phase_1\": {\"stated_goal\": \" g \"}, \"phase_2\": {\"branches\": [{\"name\": \"b\"}, \"x\"]}, \"phase_3\": {\"paradox_type\": 5}, \"s1_knowledge\": {}, \"user_input\": \"t\"}"
        :> <<"9", "5", "9", "1", "2", "1", "0", "d", "d", "e", "3", "6">>)
    )
    @@
    (
    ("{\"phase_1\": {\"stated_goal\": \" g \"}, \"phase_2\": {\"branches\": [{\"name\": \"b\"}, \"x\"]}, \"phase_3\": {\"paradox_type\": null}, \"s1_knowledge\": {\"knowledge_gaps\": [\"g\"]}, \"user_input\": \"s\"}"
        :> <<"7", "2", "5", "6", "1", "e", "2", "9", "8", "7", "d", "7">>)
    @@
    (
    ("{\"phase_1\": {\"stated_goal\": \" g \"}, \"phase_2\": {\"branches\": [{\"name\": \"b\"}, \"x\"]}, \"phase_3\": {\"paradox_type\": null}, \"s1_knowledge\": {\"knowledge_gaps\": [\"g\"]}, \"user_input\": \"t\"}"
        :> <<"b", "c", "2", "1", "0", "8", "a", "7", "0", "1", "6", "a">>)
    @@
    ("{\"phase_1\": {\"stated_goal\": \" g \"}, \"phase_2\": {\"branches\": [{\"name\": \"b\"}, \"x\"]}, \"phase_3\": {\"paradox_type\": null}, \"s1_knowledge\": {}, \"user_input\": \"s\"}"
        :> <<"0", "0", "5", "f", "0", "6", "e", "4", "d", "8", "c", "7">>)
    )
    )
    )
    )
    @@
    (
    (
    (
    ("{\"phase_1\": {\"stated_goal\": \" g \"}, \"phase_2\": {\"branches\": [{\"name\": \"b\"}, \"x\"]}, \"phase_3\": {\"paradox_type\": null}, \"s1_knowledge\": {}, \"user_input\": \"t\"}"
        :> <<"6", "5", "a", "0", "f", "3", "d", "f", "a", "0", "f", "4">>)
    @@
    ("{\"phase_1\": {\"stated_goal\": \" g \"}, \"phase_2\": {\"branches\": [{\"name\": \"b\"}, \"x\"]}, \"phase_3\": {}, \"s1_knowledge\": {\"knowledge_gaps\": [\"g\"]}, \"user_input\": \"s\"}"
        :> <<"8", "4", "3", "9", "0", "f", "4", "d", "e", "2", "0", "c">>)
    )
    @@
    (
    ("{\"phase_1\": {\"stated_goal\": \" g \"}, \"phase_2\": {\"branches\": [{\"name\": \"b\"}, \"x\"]}, \"phase_3\": {}, \"s1_knowledge\": {\"knowledge_gaps\": [\"g\"]}, \"user_input\": \"t\"}"
        :> <<"1", "d", "7", "9", "8", "6", "0", "2", "9", "f", "4", "8">>)
    @@
    (
    ("{\"phase_1\": {\"stated_goal\": \" g \"}, \"phase_2\": {\"branches\": [{\"name\": \"b\"}, \"x\"]}, \"phase_3\": {}, \"s1_knowledge\": {}, \"user_input\": \"s\"}"
        :> <<"4", "6", "2", "e", "e", "4", "0", "0", "f", "0", "1", "f">>)
    @@
    ("{\"phase_1\": {\"stated_goal\": \" g \"}, \"phase_2\": {\"branches\": [{\"name\": \"b\"}, \"x\"]}, \"phase_3\": {}, \"s1_knowledge\": {}, \"user_input\": \"t\"}"
        :> <<"f", "b", "c", "e", "3", "d", "5", "5", "d", "8", "8", "2">>)
    )
    )
    )
    @@
    (
    (
    ("{\"phase_1\": {\"stated_goal\": \" g \"}, \"phase_2\": {}, \"phase_3\": {\"contradiction_path\": [\"a\", \" \", \"b\"], \"mitigation\": \"m\", \"paradox_type\": \"Falsidical\", \"reasoning\": \" r \"}, \"s1_knowledge\": {\"knowledge_gaps\": [\"g\"]}, \"user_input\": \"s\"}"
        :> <<"d", "4", "6", "4", "7", "d", "2", "9", "2", "3", "d", "b">>)
    @@
    ("{\"phase_1\": {\"stated_goal\": \" g \"}, \"phase_2\": {}, \"phase_3\": {\"contradiction_path\": [\"a\", \" \", \"b\"], \"mitigation\": \"m\", \"paradox_type\": \"Falsidical\", \"reasoning\": \" r \"}, \"s1_knowledge\": {\"knowledge_gaps\": [\"g\"]}, \"user_input\": \"t\"}"
        :> <<"d", "7", "6", "1", "c", "8", "5", "6", "b", "f", "4", "5">>)
    )
    @@
    (
    ("{\"phase_1\": {\"stated_goal\": \" g \"}, \"phase_2\": {}, \"phase_3\": {\"contradiction_path\": [\"a\", \" \", \"b\"], \"mitigation\": \"m\", \"paradox_type\": \"Falsidical\", \"reasoning\": \" r \"}, \"s1_knowledge\": {}, \"user_input\": \"s\"}"
        :> <<"7", "a", "4", "0", "4", "1", "7", "4", "e", "1", "4", "f">>)
    @@
    (
    ("{\"phase_1\": {\"stated_goal\": \" g \"}, \"phase_2\": {}, \"phase_3\": {\"contradiction_path\": [\"a\", \" \", \"b\"], \"mitigation\": \"m\", \"paradox_type\": \"Falsidical\", \"reasoning\": \" r \"}, \"s1_knowledge\": {}, \"user_input\": \"t\"}"
        :> <<"1", "5", "d", "8", "4", "8", "6", "a", "8", "b", "e", "1">>)
    @@
    ("{\"phase_1\": {\"stated_goal\": \" g \"}, \"phase_2\": {}, \"phase_3\": {\"n\": 10106858, \"paradox_type\": \"Antinomy\"}, \"s1_knowledge\": {\"knowledge_gaps\": [\"g\"]}, \"user_input\": \"s\"}"
        :> <<"6", "0", "1", "3", "e", "0", "5", "6", "1", "b", "d", "d">>)
    )
    )
    )
    )
    )
    @@
    (
    (
    (
    (
    ("{\"phase_1\": {\"stated_goal\": \" g \"}, \"phase_2\": {}, \"phase_3\": {\"n\": 10106858, \"paradox_type\": \"Antinomy\"}, \"s1_knowledge\": {\"knowledge_gaps\": [\"g\"]}, \"user_input\": \"t\"}"
        :> <<"b", "a", "9", "1", "c", "9", "2", "6", "b", "6", "a", "8">>)
    @@
    ("{\"phase_1\": {\"stated_goal\": \" g \"}, \"phase_2\": {}, \"phase_3\": {\"n\": 10106858, \"paradox_type\": \"Antinomy\"}, \"s1_knowledge\": {}, \"user_input\": \"s\"}"
        :> <<"c", "8", "5", "a", "d", "0", "9", "a", "e", "5", "b", "d">>)
    )
    @@
    (
    ("{\"phase_1\": {\"stated_goal\": \" g \"}, \"phase_2\": {}, \"phase_3\": {\"n\": 10106858, \"paradox_type\": \"Antinomy\"}, \"s1_knowledge\": {}, \"user_input\": \"t\"}"
        :> <<"8", "9", "7", "e", "f", "d", "b", "b", "9", "3", "0", "7">>)
    @@
    ("{\"phase_1\": {\"stated_goal\": \" g \"}, \"phase_2\": {}, \"phase_3\": {\"n\": 13359876, \"paradox_type\": \"Antinomy\"}, \"s1_knowledge\": {\"knowledge_gaps\": [\"g\"]}, \"user_input\": \"s\"}"
        :> <<"3", "e", "6", "9", "3", "a", "1", "7", "a", "e", "b", "5">>)
    )
    )
    @@
    (
    (
    ("{\"phase_1\": {\"stated_goal\": \" g \"}, \"phase_2\": {}, \"phase_3\": {\"n\": 13359876, \"paradox_type\": \"Antinomy\"}, \"s1_knowledge\": {\"knowledge_gaps\": [\"g\"]}, \"user_input\": \"t\"}"
        :> <<"1", "a", "0", "7", "3", "1", "6", "1", "2", "2", "7", "8">>)
    @@
    ("{\"phase_1\": {\"stated_goal\": \" g \"}, \"phase_2\": {}, \"phase_3\": {\"n\": 13359876, \"paradox_type\": \"Antinomy\"}, \"s1_knowledge\": {}, \"user_input\": \"s\"}"
        :> <<"8", "0", "e", "3", "a", "5", "8", "0", "5", "9", "f", "f">>)
    )
    @@
    (
    ("{\"phase_1\": {\"stated_goal\": \" g \"}, \"phase_2\": {}, \"phase_3\": {\"n\": 13359876, \"paradox_type\": \"Antinomy\"}, \"s1_knowledge\": {}, \"user_input\": \"t\"}"
        :> <<"0", "a", "2", "2", "4", "a", "1", "4", "9", "d", "6", "d">>)
    @@
    (
    ("{\"phase_1\": {\"stated_goal\": \" g \"}, \"phase_2\": {}, \"phase_3\": {\"paradox_type\": \" \"}, \"s1_knowledge\": {\"knowledge_gaps\": [\"g\"]}, \"user_input\": \"s\"}"
        :> <<"5", "4", "1", "5", "f", "c", "7", "5", "6", "5", "b", "e">>)
    @@
    ("{\"phase_1\": {\"stated_goal\": \" g \"}, \"phase_2\": {}, \"phase_3\": {\"paradox_type\": \" \"}, \"s1_knowledge\": {\"knowledge_gaps\": [\"g\"]}, \"user_input\": \"t\"}"
        :> <<"7", "d", "a", "2", "2", "b", "c", "4", "9", "3", "9", "0">>)
    )
    )
    )
    )
    @@
    (
    (
    (
    ("{\"phase_1\": {\"stated_goal\": \" g \"}, \"phase_2\": {}, \"phase_3\": {\"paradox_type\": \" \"}, \"s1_knowledge\": {}, \"user_input\": \"s\"}"
        :> <<"8", "b", "5", "b", "0", "1", "d", "6", "9", "9", "6", "9">>)
    @@
    ("{\"phase_1\": {\"stated_goal\": \" g \"}, \"phase_2\": {}, \"phase_3\": {\"paradox_type\": \" \"}, \"s1_knowledge\": {}, \"user_input\": \"t\"}"
        :> <<"3", "b", "4", "3", "a", "9", "b", "e", "e", "8", "d", "7">>)
    )
    @@
    (
    ("{\"phase_1\": {\"stated_goal\": \" g \"}, \"phase_2\": {}, \"phase_3\": {\"paradox_type\": \" Veridical \"}, \"s1_knowledge\": {\"knowledge_gaps\": [\"g\"]}, \"user_input\": \"s\"}"
        :> <<"3", "6", "a", "d", "5", "a", "7", "6", "7", "d", "f", "b">>)
    @@
    (
    ("{\"phase_1\": {\"stated_goal\": \" g \"}, \"phase_2\": {}, \"phase_3\": {\"paradox_type\": \" Veridical \"}, \"s1_knowledge\": {\"knowledge_gaps\": [\"g\"]}, \"user_input\": \"t\"}"
        :> <<"9", "a", "4", "5", "a", "d", "7", "b", "a", "b", "a", "0">>)
    @@
    ("{\"phase_1\": {\"stated_goal\": \" g \"}, \"phase_2\": {}, \"phase_3\": {\"paradox_type\": \" Veridical \"}, \"s1_knowledge\": {}, \"user_input\": \"s\"}"
        :> <<"5", "b", "7", "d", "2", "1", "7", "0", "8", "0", "7", "6">>)
    )
    )
    )
    @@
    (
    (
    ("{\"phase_1\": {\"stated_goal\": \" g \"}, \"phase_2\": {}, \"phase_3\": {\"paradox_type\": \" Veridical \"}, \"s1_knowledge\": {}, \"user_input\": \"t\"}"
        :> <<"4", "7", "e", "3", "a", "5", "b", "3", "a", "1", "7", "a">>)
    @@
    ("{\"phase_1\": {\"stated_goal\": \" g \"}, \"phase_2\": {}, \"phase_3\": {\"paradox_type\": \"Liar\"}, \"s1_knowledge\": {\"knowledge_gaps\": [\"g\"]}, \"user_input\": \"s\"}"
        :> <<"4", "3", "8", "4", "3", "6", "d", "0", "d", "a", "0", "b">>)
    )
    @@
    (
    ("{\"phase_1\": {\"stated_goal\": \" g \"}, \"phase_2\": {}, \"phase_3\": {\"paradox_type\": \"Liar\"}, \"s1_knowledge\": {\"knowledge_gaps\": [\"g\"]}, \"user_input\": \"t\"}"
        :> <<"7", "a", "6", "e", "6", "4", "a", "3", "d", "5", "f", "3">>)
    @@
    (
    ("{\"phase_1\": {\"stated_goal\": \" g \"}, \"phase_2\": {}, \"phase_3\": {\"paradox_type\": \"Liar\"}, \"s1_knowledge\": {}, \"user_input\": \"s\"}"
        :> <<"7", "c", "9", "e", "3", "8", "d", "0", "0", "6", "1", "d">>)
    @@
    ("{\"phase_1\": {\"stated_goal\": \" g \"}, \"phase_2\": {}, \"phase_3\": {\"paradox_type\": \"Liar\"}, \"s1_knowledge\": {}, \"user_input\": \"t\"}"
        :> <<"d", "c", "b", "6", "c", "5", "9", "1", "d", "1", "e", "f">>)
    )
    )
    )
    )
    )
    )
    )
    @@
    (
    (
    (
    (
    (
    (
    ("{\"phase_1\": {\"stated_goal\": \" g \"}, \"phase_2\": {}, \"phase_3\": {\"paradox_type\": 5}, \"s1_knowledge\": {\"knowledge_gaps\": [\"g\"]}, \"user_input\": \"s\"}"
        :> <<"6", "b", "a", "9", "5", "9", "b", "5", "e", "1", "3", "8">>)
    @@
    ("{\"phase_1\": {\"stated_goal\": \" g \"}, \"phase_2\": {}, \"phase_3\": {\"paradox_type\": 5}, \"s1_knowledge\": {\"knowledge_gaps\": [\"g\"]}, \"user_input\": \"t\"}"
        :> <<"6", "b", "c", "8", "d", "3", "c", "d", "d", "e", "d", "f">>)
    )
    @@
    (
    ("{\"phase_1\": {\"stated_goal\": \" g \"}, \"phase_2\": {}, \"phase_3\": {\"paradox_type\": 5}, \"s1_knowledge\": {}, \"user_input\": \"s\"}"
        :> <<"3", "e", "8", "4", "7", "9", "3", "c", "7", "4", "a", "4">>)
    @@
    ("{\"phase_1\": {\"stated_goal\": \" g \"}, \"phase_2\": {}, \"phase_3\": {\"paradox_type\": 5}, \"s1_knowledge\": {}, \"user_input\": \"t\"}"
        :> <<"6", "0", "7", "1", "1", "a", "b", "6", "2", "6", "a", "c">>)
    )
    )
    @@
    (
    (
    ("{\"phase_1\": {\"stated_goal\": \" g \"}, \"phase_2\": {}, \"phase_3\": {\"paradox_type\": null}, \"s1_knowledge\": {\"knowledge_gaps\": [\"g\"]}, \"user_input\": \"s\"}"
        :> <<"a", "a", "6", "6", "6", "2", "c", "1", "a", "8", "a", "9">>)
    @@
    ("{\"phase_1\": {\"stated_goal\": \" g \"}, \"phase_2\": {}, \"phase_3\": {\"paradox_type\": null}, \"s1_knowledge\": {\"knowledge_gaps\": [\"g\"]}, \"user_input\": \"t\"}"
        :> <<"5", "3", "2", "9", "e", "d", "3", "d", "b", "8", "f", "0">>)
    )
    @@
    (
    ("{\"phase_1\": {\"stated_goal\": \" g \"}, \"phase_2\": {}, \"phase_3\": {\"paradox_type\": null}, \"s1_knowledge\": {}, \"user_input\": \"s\"}"
        :> <<"d", "b", "4", "a", "e", "5", "8", "4", "0", "f", "4", "7">>)
    @@
    (
    ("{\"phase_1\": {\"stated_goal\": \" g \"}, \"phase_2\": {}, \"phase_3\": {\"paradox_type\": null}, \"s1_knowledge\": {}, \"user_input\": \"t\"}"
        :> <<"f", "9", "9", "b", "7", "a", "8", "d", "c", "b", "f", "7">>)
    @@
    ("{\"phase_1\": {\"stated_goal\": \" g \"}, \"phase_2\": {}, \"phase_3\": {}, \"s1_knowledge\": {\"knowledge_gaps\": [\"g\"]}, \"user_input\": \"s\"}"
        :> <<"0", "9", "f", "7", "e", "9", "3", "1", "c", "1", "b", "b">>)
    )
    )
    )
    )
    @@
    (
    (
    (
    ("{\"phase_1\": {\"stated_goal\": \" g \"}, \"phase_2\": {}, \"phase_3\": {}, \"s1_knowledge\": {\"knowledge_gaps\": [\"g\"]}, \"user_input\": \"t\"}"
        :> <<"3", "8", "d", "5", "3", "e", "4", "1", "e", "a", "6", "f">>)
    @@
    ("{\"phase_1\": {\"stated_goal\": \" g \"}, \"phase_2\": {}, \"phase_3\": {}, \"s1_knowledge\": {}, \"user_input\": \"s\"}"
        :> <<"d", "f", "5", "e", "1", "b", "7", "0", "b", "9", "4", "c">>)
    )
    @@
    (
    ("{\"phase_1\": {\"stated_goal\": \" g \"}, \"phase_2\": {}, \"phase_3\": {}, \"s1_knowledge\": {}, \"user_input\": \"t\"}"
        :> <<"b", "5", "c", "9", "5", "2", "d", "f", "3", "6", "c", "8">>)
    @@
    (
    ("{\"phase_1\": {}, \"phase_2\": {\"branches\": \"x\"}, \"phase_3\": {}, \"s1_knowledge\": {}, \"user_input\": \"s\"}"
        :> <<"a", "4", "1", "e", "c", "1", "3", "2", "f", "5", "3", "4">>)
    @@
    ("{\"phase_1\": {}, \"phase_2\": {\"branches\": [\"x\", \"x\", \"x\"]}, \"phase_3\": {}, \"s1_knowledge\": {}, \"user_input\": \"s\"}"
        :> <<"2", "3", "3", "f", "3", "4", "e", "5", "f", "9", "8", "4">>)
    )
    )
    )
    @@
    (
    (
    ("{\"phase_1\": {}, \"phase_2\": {\"branches\": [\"x\", \"x\", [\"l\"]]}, \"phase_3\": {}, \"s1_knowledge\": {}, \"user_input\": \"s\"}"
        :> <<"9", "5", "5", "6", "b", "a", "2", "a", "6", "d", "c", "4">>)
    @@
    ("{\"phase_1\": {}, \"phase_2\": {\"branches\": [\"x\", \"x\", null]}, \"phase_3\": {}, \"s1_knowledge\": {}, \"user_input\": \"s\"}"
        :> <<"0", "f", "7", "5", "c", "e", "b", "9", "c", "b", "d", "3">>)
    )
    @@
    (
    ("{\"phase_1\": {}, \"phase_2\": {\"branches\": [\"x\", \"x\", {\"goal_impact\": \" \", \"name\": \" a \", \"result\": \"\"}]}, \"phase_3\": {}, \"s1_knowledge\": {}, \"user_input\": \"s\"}"
        :> <<"7", "f", "b", "7", "6", "1", "8", "7", "8", "5", "1", "3">>)
    @@
    (
    ("{\"phase_1\": {}, \"phase_2\": {\"branches\": [\"x\", \"x\", {\"name\": null, \"result\": 5}]}, \"phase_3\": {}, \"s1_knowledge\": {}, \"user_input\": \"s\"}"
        :> <<"0", "d", "2", "f", "2", "5", "a", "8", "7", "f", "4", "a">>)
    @@
    ("{\"phase_1\": {}, \"phase_2\": {\"branches\": [\"x\", \"x\", {}]}, \"phase_3\": {}, \"s1_knowledge\": {}, \"user_input\": \"s\"}"
        :> <<"0", "7", "2", "e", "9", "1", "5", "8", "e", "0", "7", "f">>)
    )
    )
    )
    )
    )
    @@
    (
    (
    (
    (
    ("{\"phase_1\": {}, \"phase_2\": {\"branches\": [\"x\", \"x\"]}, \"phase_3\": {}, \"s1_knowledge\": {}, \"user_input\": \"s\"}"
        :> <<"3", "f", "4", "8", "d", "b", "4", "d", "9", "3", "6", "1">>)
    @@
    ("{\"phase_1\": {}, \"phase_2\": {\"branches\": [\"x\", [\"l\"], \"x\"]}, \"phase_3\": {}, \"s1_knowledge\": {}, \"user_input\": \"s\"}"
        :> <<"c", "b", "6", "c", "b", "f", "d", "7", "8", "0", "0", "2">>)
    )
    @@
    (
    ("{\"phase_1\": {}, \"phase_2\": {\"branches\": [\"x\", [\"l\"], [\"l\"]]}, \"phase_3\": {}, \"s1_knowledge\": {}, \"user_input\": \"s\"}"
        :> <<"c", "4", "e", "8", "6", "1", "2", "8", "0", "7", "d", "d">>)
    @@
    ("{\"phase_1\": {}, \"phase_2\": {\"branches\": [\"x\", [\"l\"], null]}, \"phase_3\": {}, \"s1_knowledge\": {}, \"user_input\": \"s\"}"
        :> <<"d", "9", "b", "f", "e", "c", "e", "b", "8", "a", "f", "d">>)
    )
    )
    @@
    (
    (
    ("{\"phase_1\": {}, \"phase_2\": {\"branches\": [\"x\", [\"l\"], {\"goal_impact\": \" \", \"name\": \" a \", \"result\": \"\"}]}, \"phase_3\": {}, \"s1_knowledge\": {}, \"user_input\": \"s\"}"
        :> <<"5", "1", "5", "e", "9", "8", "c", "d", "9", "6", "d", "c">>)
    @@
    ("{\"phase_1\": {}, \"phase_2\": {\"branches\": [\"x\", [\"l\"], {\"name\": null, \"result\": 5}]}, \"phase_3\": {}, \"s1_knowledge\": {}, \"user_input\": \"s\"}"
        :> <<"d", "4", "8", "6", "c", "1", "e", "0", "2", "0", "6", "9">>)
    )
    @@
    (
    ("{\"phase_1\": {}, \"phase_2\": {\"branches\": [\"x\", [\"l\"], {}]}, \"phase_3\": {}, \"s1_knowledge\": {}, \"user_input\": \"s\"}"
        :> <<"c", "3", "3", "2", "4", "1", "d", "9", "3", "4", "7", "d">>)
    @@
    (
    ("{\"phase_1\": {}, \"phase_2\": {\"branches\": [\"x\", [\"l\"]]}, \"phase_3\": {}, \"s1_knowledge\": {}, \"user_input\": \"s\"}"
        :> <<"a", "a", "f", "d", "4", "d", "6", "7", "0", "2", "2", "d">>)
    @@
    ("{\"phase_1\": {}, \"phase_2\": {\"branches\": [\"x\", null, \"x\"]}, \"phase_3\": {}, \"s1_knowledge\": {}, \"user_input\": \"s\"}"
        :> <<"2", "a", "c", "e", "e", "9", "e", "1", "f", "f", "8", "b">>)
    )
    )
    )
    )
    @@
    (
    (
    (
    ("{\"phase_1\": {}, \"phase_2\": {\"branches\": [\"x\", null, [\"l\"]]}, \"phase_3\": {}, \"s1_knowledge\": {}, \"user_input\": \"s\"}"
        :> <<"f", "6", "d", "4", "f", "7", "e", "e", "9", "b", "5", "4">>)
    @@
    ("{\"phase_1\": {}, \"phase_2\": {\"branches\": [\"x\", null, null]}, \"phase_3\": {}, \"s1_knowledge\": {}, \"user_input\": \"s\"}"
        :> <<"8", "b", "8", "3", "3", "7", "3", "c", "b", "b", "a", "f">>)
    )
    @@
    (
    ("{\"phase_1\": {}, \"phase_2\": {\"branches\": [\"x\", null, {\"goal_impact\": \" \", \"name\": \" a \", \"result\": \"\"}]}, \"phase_3\": {}, \"s1_knowledge\": {}, \"user_input\": \"s\"}"
        :> <<"c", "e", "0", "f", "b", "a", "c", "5", "4", "e", "2", "0">>)
    @@
    (
    ("{\"phase_1\": {}, \"phase_2\": {\"branches\": [\"x\", null, {\"name\": null, \"result\": 5}]}, \"phase_3\": {}, \"s1_knowledge\": {}, \"user_input\": \"s\"}"
        :> <<"0", "d", "0", "e", "f", "d", "e", "e", "0", "7", "6", "e">>)
    @@
    ("{\"phase_1\": {}, \"phase_2\": {\"branches\": [\"x\", null, {}]}, \"phase_3\": {}, \"s1_knowledge\": {}, \"user_input\": \"s\"}"
        :> <<"7", "1", "4", "9", "e", "b", "d", "8", "f", "1", "0", "e">>)
    )
    )
    )
    @@
    (
    (
    ("{\"phase_1\": {}, \"phase_2\": {\"branches\": [\"x\", null]}, \"phase_3\": {}, \"s1_knowledge\": {}, \"user_input\": \"s\"}"
        :> <<"2", "8", "8", "7", "e", "6", "c", "2", "9", "d", "3", "1">>)
    @@
    ("{\"phase_1\": {}, \"phase_2\": {\"branches\": [\"x\", {\"goal_impact\": \" \", \"name\": \" a \", \"result\": \"\"}, \"x\"]}, \"phase_3\": {}, \"s1_knowledge\": {}, \"user_input\": \"s\"}"
        :> <<"f", "a", "5", "3", "6", "7", "c", "a", "e", "e", "d", "8">>)
    )
    @@
    (
    ("{\"phase_1\": {}, \"phase_2\": {\"branches\": [\"x\", {\"goal_impact\": \" \", \"name\": \" a \", \"result\": \"\"}, [\"l\"]]}, \"phase_3\": {}, \"s1_knowledge\": {}, \"user_input\": \"s\"}"
        :> <<"0", "b", "1", "2", "0", "d", "9", "e", "c", "d", "c", "6">>)
    @@
    (
    ("{\"phase_1\": {}, \"phase_2\": {\"branches\": [\"x\", {\"goal_impact\": \" \", \"name\": \" a \", \"result\": \"\"}, null]}, \"phase_3\": {}, \"s1_knowledge\": {}, \"user_input\": \"s\"}"
        :> <<"3", "5", "4", "8", "c", "4", "c", "4", "5", "8", "6", "c">>)
    @@
    ("{\"phase_1\": {}, \"phase_2\": {\"branches\": [\"x\", {\"goal_impact\": \" \", \"name\": \" a \", \"result\": \"\"}, {\"goal_impact\": \" \", \"name\": \" a \", \"result\": \"\"}]}, \"phase_3\": {}, \"s1_knowledge\": {}, \"user_input\": \"s\"}"
        :> <<"1", "2", "e", "8", "9", "9", "5", "9", "d", "a", "2", "d">>)
    )
    )
    )
    )
    )
    )
    @@
    (
    (
    (
    (
    (
    ("{\"phase_1\": {}, \"phase_2\": {\"branches\": [\"x\", {\"goal_impact\": \" \", \"name\": \" a \", \"result\": \"\"}, {\"name\": null, \"result\": 5}]}, \"phase_3\": {}, \"s1_knowledge\": {}, \"user_input\": \"s\"}"
        :> <<"a", "9", "4", "c", "1", "e", "e", "7", "f", "0", "4", "7">>)
    @@
    ("{\"phase_1\": {}, \"phase_2\": {\"branches\": [\"x\", {\"goal_impact\": \" \", \"name\": \" a \", \"result\": \"\"}, {}]}, \"phase_3\": {}, \"s1_knowledge\": {}, \"user_input\": \"s\"}"
        :> <<"b", "8", "5", "3", "0", "c", "4", "7", "c", "c", "2", "b">>)
    )
    @@
    (
    ("{\"phase_1\": {}, \"phase_2\": {\"branches\": [\"x\", {\"goal_impact\": \" \", \"name\": \" a \", \"result\": \"\"}]}, \"phase_3\": {}, \"s1_knowledge\": {}, \"user_input\": \"s\"}"
        :> <<"d", "3", "6", "b", "a", "e", "c", "f", "a", "d", "e", "0">>)
    @@
    ("{\"phase_1\": {}, \"phase_2\": {\"branches\": [\"x\", {\"name\": null, \"result\": 5}, \"x\"]}, \"phase_3\": {}, \"s1_knowledge\": {}, \"user_input\": \"s\"}"
        :> <<"9", "e", "f", "e", "a", "b", "6", "1", "b", "2", "e", "5">>)
    )
    )
    @@
    (
    (
    ("{\"phase_1\": {}, \"phase_2\": {\"branches\": [\"x\", {\"name\": null, \"result\": 5}, [\"l\"]]}, \"phase_3\": {}, \"s1_knowledge\": {}, \"user_input\": \"s\"}"
        :> <<"b", "c", "1", "5", "7", "8", "e", "e", "e", "8", "0", "a">>)
    @@
    ("{\"phase_1\": {}, \"phase_2\": {\"branches\": [\"x\", {\"name\": null, \"result\": 5}, null]}, \"phase_3\": {}, \"s1_knowledge\": {}, \"user_input\": \"s\"}"
        :> <<"0", "e", "a", "7", "4", "8", "a", "5", "3", "3", "c", "6">>)
    )
    @@
    (
    ("{\"phase_1\": {}, \"phase_2\": {\"branches\": [\"x\", {\"name\": null, \"result\": 5}, {\"goal_impact\": \" \", \"name\": \" a \", \"result\": \"\"}]}, \"phase_3\": {}, \"s1_knowledge\": {}, \"user_input\": \"s\"}"
        :> <<"f", "4", "b", "7", "8", "9", "a", "6", "6", "a", "a", "6">>)
    @@
    (
    ("{\"phase_1\": {}, \"phase_2\": {\"branches\": [\"x\", {\"name\": null, \"result\": 5}, {\"name\": null, \"result\": 5}]}, \"phase_3\": {}, \"s1_knowledge\": {}, \"user_input\": \"s\"}"
        :> <<"4", "e", "5", "7", "e", "6", "6", "c", "7", "6", "b", "2">>)
    @@
    ("{\"phase_1\": {}, \"phase_2\": {\"branches\": [\"x\", {\"name\": null, \"result\": 5}, {}]}, \"phase_3\": {}, \"s1_knowledge\": {}, \"user_input\": \"s\"}"
        :> <<"5", "8", "d", "4", "1", "4", "c", "c", "8", "0", "b", "2">>)
    )
    )
    )
    )
    @@
    (
    (
    (
    ("{\"phase_1\": {}, \"phase_2\": {\"branches\": [\"x\", {\"name\": null, \"result\": 5}]}, \"phase_3\": {}, \"s1_knowledge\": {}, \"user_input\": \"s\"}"
        :> <<"1", "b", "e", "8", "e", "8", "4", "b", "6", "1", "d", "d">>)
    @@
    ("{\"phase_1\": {}, \"phase_2\": {\"branches\": [\"x\", {}, \"x\"]}, \"phase_3\": {}, \"s1_knowledge\": {}, \"user_input\": \"s\"}"
        :> <<"c", "a", "0", "2", "0", "7", "1", "1", "3", "3", "4", "4">>)
    )
    @@
    (
    ("{\"phase_1\": {}, \"phase_2\": {\"branches\": [\"x\", {}, [\"l\"]]}, \"phase_3\": {}, \"s1_knowledge\": {}, \"user_input\": \"s\"}"
        :> <<"9", "d", "1", "c", "c", "1", "b", "5", "f", "3", "0", "1">>)
    @@
    (
    ("{\"phase_1\": {}, \"phase_2\": {\"branches\": [\"x\", {}, null]}, \"phase_3\": {}, \"s1_knowledge\": {}, \"user_input\": \"s\"}"
        :> <<"b", "c", "3", "b", "3", "4", "5", "c", "3", "9", "3", "0">>)
    @@
    ("{\"phase_1\": {}, \"phase_2\": {\"branches\": [\"x\", {}, {\"goal_impact\": \" \", \"name\": \" a \", \"result\": \"\"}]}, \"phase_3\": {}, \"s1_knowledge\": {}, \"user_input\": \"s\"}"
        :> <<"7", "3", "f", "6", "8", "6", "3", "a", "9", "3", "6", "1">>)
    )
    )
    )
    @@
    (
    (
    ("{\"phase_1\": {}, \"phase_2\": {\"branches\": [\"x\", {}, {\"name\": null, \"result\": 5}]}, \"phase_3\": {}, \"s1_knowledge\": {}, \"user_input\": \"s\"}"
        :> <<"3", "6", "b", "6", "2", "7", "0", "e", "0", "0", "1", "6">>)
    @@
    ("{\"phase_1\": {}, \"phase_2\": {\"branches\": [\"x\", {}, {}]}, \"phase_3\": {}, \"s1_knowledge\": {}, \"user_input\": \"s\"}"
        :> <<"b", "d", "2", "a", "4", "e", "d", "0", "6", "f", "c", "7">>)
    )
    @@
    (
    ("{\"phase_1\": {}, \"phase_2\": {\"branches\": [\"x\", {}]}, \"phase_3\": {}, \"s1_knowledge\": {}, \"user_input\": \"s\"}"
        :> <<"0", "3", "3", "4", "1", "a", "2", "6", "4", "8", "d", "0">>)
    @@
    (
    ("{\"phase_1\": {}, \"phase_2\": {\"branches\": [\"x\"]}, \"phase_3\": {}, \"s1_knowledge\": {}, \"user_input\": \"s\"}"
        :> <<"d", "a", "0", "e", "6", "a", "2", "3", "b", "4", "f", "c">>)
    @@
    ("{\"phase_1\": {}, \"phase_2\": {\"branches\": [[\"l\"], \"x\", \"x\"]}, \"phase_3\": {}, \"s1_knowledge\": {}, \"user_input\": \"s\"}"
        :> <<"1", "9", "1", "e", "e", "d", "b", "c", "7", "f", "f", "c">>)
    )
    )
    )
    )
    )
    @@
    (
    (
    (
    (
    ("{\"phase_1\": {}, \"phase_2\": {\"branches\": [[\"l\"], \"x\", [\"l\"]]}, \"phase_3\": {}, \"s1_knowledge\": {}, \"user_input\": \"s\"}"
        :> <<"3", "d", "2", "f", "2", "0", "a", "1", "e", "a", "4", "8">>)
    @@
    ("{\"phase_1\": {}, \"phase_2\": {\"branches\": [[\"l\"], \"x\", null]}, \"phase_3\": {}, \"s1_knowledge\": {}, \"user_input\": \"s\"}"
        :> <<"f", "4", "b", "5", "0", "2", "2", "2", "7", "7", "e", "3">>)
    )
    @@
    (
    ("{\"phase_1\": {}, \"phase_2\": {\"branches\": [[\"l\"], \"x\", {\"goal_impact\": \" \", \"name\": \" a \", \"result\": \"\"}]}, \"phase_3\": {}, \"s1_knowledge\": {}, \"user_input\": \"s\"}"
        :> <<"9", "4", "a", "b", "6", "a", "a", "6", "4", "7", "4", "c">>)
    @@
    ("{\"phase_1\": {}, \"phase_2\": {\"branches\": [[\"l\"], \"x\", {\"name\": null, \"result\": 5}]}, \"phase_3\": {}, \"s1_knowledge\": {}, \"user_input\": \"s\"}"
        :> <<"e", "d", "0", "b", "b", "f", "8", "9", "7", "b", "f", "e">>)
    )
    )
    @@
    (
    (
    ("{\"phase_1\": {}, \"phase_2\": {\"branches\": [[\"l\"], \"x\", {}]}, \"phase_3\": {}, \"s1_knowledge\": {}, \"user_input\": \"s\"}"
        :> <<"b", "7", "d", "1", "3", "5", "8", "d", "c", "0", "7", "8">>)
    @@
    ("{\"phase_1\": {}, \"phase_2\": {\"branches\": [[\"l\"], \"x\"]}, \"phase_3\": {}, \"s1_knowledge\": {}, \"user_input\": \"s\"}"
        :> <<"0", "e", "f", "a", "6", "b", "8", "f", "1", "6", "9", "c">>)
    )
    @@
    (
    ("{\"phase_1\": {}, \"phase_2\": {\"branches\": [[\"l\"], [\"l\"], \"x\"]}, \"phase_3\": {}, \"s1_knowledge\": {}, \"user_input\": \"s\"}"
        :> <<"e", "e", "9", "f", "f", "7", "a", "3", "b", "4", "0", "3">>)
    @@
    (
    ("{\"phase_1\": {}, \"phase_2\": {\"branches\": [[\"l\"], [\"l\"], [\"l\"]]}, \"phase_3\": {}, \"s1_knowledge\": {}, \"user_input\": \"s\"}"
        :> <<"5", "7", "f", "f", "b", "e", "e", "e", "8", "f", "f", "7">>)
    @@
    ("{\"phase_1\": {}, \"phase_2\": {\"branches\": [[\"l\"], [\"l\"], null]}, \"phase_3\": {}, \"s1_knowledge\": {}, \"user_input\": \"s\"}"
        :> <<"7", "2", "d", "8", "3", "a", "d", "7", "4", "e", "6", "e">>)
    )
    )
    )
    )
    @@
    (
    (
    (
    ("{\"phase_1\": {}, \"phase_2\": {\"branches\": [[\"l\"], [\"l\"], {\"goal_impact\": \" \", \"name\": \" a \", \"result\": \"\"}]}, \"phase_3\": {}, \"s1_knowledge\": {}, \"user_input\": \"s\"}"
        :> <<"1", "8", "a", "a", "b", "2", "8", "3", "e", "b", "8", "2">>)
    @@
    ("{\"phase_1\": {}, \"phase_2\": {\"branches\": [[\"l\"], [\"l\"], {\"name\": null, \"result\": 5}]}, \"phase_3\": {}, \"s1_knowledge\": {}, \"user_input\": \"s\"}"
        :> <<"3", "6", "3", "0", "b", "6", "b", "2", "c", "8", "9", "e">>)
    )
    @@
    (
    ("{\"phase_1\": {}, \"phase_2\": {\"branches\": [[\"l\"], [\"l\"], {}]}, \"phase_3\": {}, \"s1_knowledge\": {}, \"user_input\": \"s\"}"
        :> <<"f", "e", "6", "e", "5", "9", "e", "f", "5", "6", "d", "4">>)
    @@
    (
    ("{\"phase_1\": {}, \"phase_2\": {\"branches\": [[\"l\"], [\"l\"]]}, \"phase_3\": {}, \"s1_knowledge\": {}, \"user_input\": \"s\"}"
        :> <<"8", "1", "5", "7", "7", "7", "a", "0", "9", "3", "1", "8">>)
    @@
    ("{\"phase_1\": {}, \"phase_2\": {\"branches\": [[\"l\"], null, \"x\"]}, \"phase_3\": {}, \"s1_knowledge\": {}, \"user_input\": \"s\"}"
        :> <<"2", "2", "6", "1", "0", "7", "b", "d", "4", "7", "1", "a">>)
    )
    )
    )
    @@
    (
    (
    ("{\"phase_1\": {}, \"phase_2\": {\"branches\": [[\"l\"], null, [\"l\"]]}, \"phase_3\": {}, \"s1_knowledge\": {}, \"user_input\": \"s\"}"
        :> <<"d", "b", "a", "3", "0", "8", "1", "e", "0", "4", "6", "6">>)
    @@
    ("{\"phase_1\": {}, \"phase_2\": {\"branches\": [[\"l\"], null, null]}, \"phase_3\": {}, \"s1_knowledge\": {}, \"user_input\": \"s\"}"
        :> <<"0", "4", "7", "1", "d", "9", "0", "8", "b", "8", "a", "6">>)
    )
    @@
    (
    ("{\"phase_1\": {}, \"phase_2\": {\"branches\": [[\"l\"], null, {\"goal_impact\": \" \", \"name\": \" a \", \"result\": \"\"}]}, \"phase_3\": {}, \"s1_knowledge\": {}, \"user_input\": \"s\"}"
        :> <<"3", "c", "0", "7", "b", "d", "6", "b", "b", "a", "7", "7">>)
    @@
    (
    ("{\"phase_1\": {}, \"phase_2\": {\"branches\": [[\"l\"], null, {\"name\": null, \"result\": 5}]}, \"phase_3\": {}, \"s1_knowledge\": {}, \"user_input\": \"s\"}"
        :> <<"0", "4", "c", "a", "9", "a", "f", "6", "5", "1", "b", "1">>)
    @@
    ("{\"phase_1\": {}, \"phase_2\": {\"branches\": [[\"l\"], null, {}]}, \"phase_3\": {}, \"s1_knowledge\": {}, \"user_input\": \"s\"}"
        :> <<"8", "4", "7", "7", "0", "9", "f", "4", "a", "4", "b", "8">>)
    )
    )
    )
    )
    )
    )
    )
    )
    @@
    (
    (
    (
    (
    (
    (
    (
    ("{\"phase_1\": {}, \"phase_2\": {\"branches\": [[\"l\"], null]}, \"phase_3\": {}, \"s1_knowledge\": {}, \"user_input\": \"s\"}"
        :> <<"e", "3", "1", "1", "8", "5", "0", "8", "e", "c", "c", "6">>)
    @@
    ("{\"phase_1\": {}, \"phase_2\": {\"branches\": [[\"l\"], {\"goal_impact\": \" \", \"name\": \" a \", \"result\": \"\"}, \"x\"]}, \"phase_3\": {}, \"s1_knowledge\": {}, \"user_input\": \"s\"}"
        :> <<"0", "1", "3", "7", "5", "3", "9", "9", "4", "6", "1", "2">>)
    )
    @@
    (
    ("{\"phase_1\": {}, \"phase_2\": {\"branches\": [[\"l\"], {\"goal_impact\": \" \", \"name\": \" a \", \"result\": \"\"}, [\"l\"]]}, \"phase_3\": {}, \"s1_knowledge\": {}, \"user_input\": \"s\"}"
        :> <<"1", "f", "a", "b", "1", "e", "a", "b", "b", "e", "8", "6">>)
    @@
    ("{\"phase_1\": {}, \"phase_2\": {\"branches\": [[\"l\"], {\"goal_impact\": \" \", \"name\": \" a \", \"result\": \"\"}, null]}, \"phase_3\": {}, \"s1_knowledge\": {}, \"user_input\": \"s\"}"
        :> <<"a", "6", "f", "7", "0", "a", "b", "d", "9", "b", "c", "1">>)
    )
    )
    @@
    (
    (
    ("{\"phase_1\": {}, \"phase_2\": {\"branches\": [[\"l\"], {\"goal_impact\": \" \", \"name\": \" a \", \"result\": \"\"}, {\"goal_impact\": \" \", \"name\": \" a \", \"result\": \"\"}]}, \"phase_3\": {}, \"s1_knowledge\": {}, \"user_input\": \"s\"}"
        :> <<"d", "b", "4", "3", "b", "6", "a", "e", "3", "d", "0", "0">>)
    @@
    ("{\"phase_1\": {}, \"phase_2\": {\"branches\": [[\"l\"], {\"goal_impact\": \" \", \"name\": \" a \", \"result\": \"\"}, {\"name\": null, \"result\": 5}]}, \"phase_3\": {}, \"s1_knowledge\": {}, \"user_input\": \"s\"}"
        :> <<"2", "0", "4", "4", "f", "d", "5", "f", "5", "e", "0", "4">>)
    )
    @@
    (
    ("{\"phase_1\": {}, \"phase_2\": {\"branches\": [[\"l\"], {\"goal_impact\": \" \", \"name\": \" a \", \"result\": \"\"}, {}]}, \"phase_3\": {}, \"s1_knowledge\": {}, \"user_input\": \"s\"}"
        :> <<"0", "3", "b", "2", "3", "a", "6", "4", "8", "1", "3", "7">>)
    @@
    (
    ("{\"phase_1\": {}, \"phase_2\": {\"branches\": [[\"l\"], {\"goal_impact\": \" \", \"name\": \" a \", \"result\": \"\"}]}, \"phase_3\": {}, \"s1_knowledge\": {}, \"user_input\": \"s\"}"
        :> <<"d", "d", "1", "f", "d", "3", "5", "2", "9", "5", "1", "5">>)
    @@
    ("{\"phase_1\": {}, \"phase_2\": {\"branches\": [[\"l\"], {\"name\": null, \"result\": 5}, \"x\"]}, \"phase_3\": {}, \"s1_knowledge\": {}, \"user_input\": \"s\"}"
        :> <<"6", "6", "8", "5", "3", "4", "0", "9", "9", "7", "1", "9">>)
    )
    )
    )
    )
    @@
    (
    (
    (
    ("{\"phase_1\": {}, \"phase_2\": {\"branches\": [[\"l\"], {\"name\": null, \"result\": 5}, [\"l\"]]}, \"phase_3\": {}, \"s1_knowledge\": {}, \"user_input\": \"s\"}"
        :> <<"8", "6", "8", "d", "a", "3", "4", "d", "5", "c", "6", "1">>)
    @@
    ("{\"phase_1\": {}, \"phase_2\": {\"branches\": [[\"l\"], {\"name\": null, \"result\": 5}, null]}, \"phase_3\": {}, \"s1_knowledge\": {}, \"user_input\": \"s\"}"
        :> <<"2", "6", "f", "8", "f", "c", "a", "f", "d", "7", "a", "f">>)
    )
    @@
    (
    ("{\"phase_1\": {}, \"phase_2\": {\"branches\": [[\"l\"], {\"name\": null, \"result\": 5}, {\"goal_impact\": \" \", \"name\": \" a \", \"result\": \"\"}]}, \"phase_3\": {}, \"s1_knowledge\": {}, \"user_input\": \"s\"}"
        :> <<"9", "0", "8", "8", "8", "7", "e", "b", "6", "d", "0", "d">>)
    @@
    (
    ("{\"phase_1\": {}, \"phase_2\": {\"branches\": [[\"l\"], {\"name\": null, \"result\": 5}, {\"name\": null, \"result\": 5}]}, \"phase_3\": {}, \"s1_knowledge\": {}, \"user_input\": \"s\"}"
        :> <<"a", "c", "8", "2", "4", "3", "9", "d", "8", "5", "7", "1">>)
    @@
    ("{\"phase_1\": {}, \"phase_2\": {\"branches\": [[\"l\"], {\"name\": null, \"result\": 5}, {}]}, \"phase_3\": {}, \"s1_knowledge\": {}, \"user_input\": \"s\"}"
        :> <<"8", "e", "a", "c", "d", "2", "6", "8", "d", "0", "8", "d">>)
    )
    )
    )
    @@
    (
    (
    ("{\"phase_1\": {}, \"phase_2\": {\"branches\": [[\"l\"], {\"name\": null, \"result\": 5}]}, \"phase_3\": {}, \"s1_knowledge\": {}, \"user_input\": \"s\"}"
        :> <<"8", "4", "d", "b", "e", "f", "8", "e", "1", "d", "0", "5">>)
    @@
    ("{\"phase_1\": {}, \"phase_2\": {\"branches\": [[\"l\"], {}, \"x\"]}, \"phase_3\": {}, \"s1_knowledge\": {}, \"user_input\": \"s\"}"
        :> <<"5", "1", "8", "0", "e", "b", "f", "d", "b", "c", "b", "4">>)
    )
    @@
    (
    ("{\"phase_1\": {}, \"phase_2\": {\"branches\": [[\"l\"], {}, [\"l\"]]}, \"phase_3\": {}, \"s1_knowledge\": {}, \"user_input\": \"s\"}"
        :> <<"6", "b", "f", "2", "0", "9", "4", "2", "b", "b", "d", "c">>)
    @@
    (
    ("{\"phase_1\": {}, \"phase_2\": {\"branches\": [[\"l\"], {}, null]}, \"phase_3\": {}, \"s1_knowledge\": {}, \"user_input\": \"s\"}"
        :> <<"d", "b", "a", "7", "d", "7", "f", "c", "d", "f", "b", "1">>)
    @@
    ("{\"phase_1\": {}, \"phase_2\": {\"branches\": [[\"l\"], {}, {\"goal_impact\": \" \", \"name\": \" a \", \"result\": \"\"}]}, \"phase_3\": {}, \"s1_knowledge\": {}, \"user_input\": \"s\"}"
        :> <<"b", "7", "d", "0", "c", "6", "0", "1", "8", "1", "0", "3">>)
    )
    )
    )
    )
    )
    @@
    (
    (
    (
    (
    ("{\"phase_1\": {}, \"phase_2\": {\"branches\": [[\"l\"], {}, {\"name\": null, \"result\": 5}]}, \"phase_3\": {}, \"s1_knowledge\": {}, \"user_input\": \"s\"}"
        :> <<"0", "3", "d", "8", "8", "c", "5", "1", "e", "0", "3", "e">>)
    @@
    ("{\"phase_1\": {}, \"phase_2\": {\"branches\": [[\"l\"], {}, {}]}, \"phase_3\": {}, \"s1_knowledge\": {}, \"user_input\": \"s\"}"
        :> <<"b", "0", "c", "e", "a", "8", "8", "d", "d", "a", "6", "6">>)
    )
    @@
    (
    ("{\"phase_1\": {}, \"phase_2\": {\"branches\": [[\"l\"], {}]}, \"phase_3\": {}, \"s1_knowledge\": {}, \"user_input\": \"s\"}"
        :> <<"a", "f", "5", "d", "f", "3", "9", "b", "4", "f", "c", "7">>)
    @@
    ("{\"phase_1\": {}, \"phase_2\": {\"branches\": [[\"l\"]]}, \"phase_3\": {}, \"s1_knowledge\": {}, \"user_input\": \"s\"}"
        :> <<"1", "5", "9", "5", "d", "5", "2", "1", "7", "6", "f", "6">>)
    )
    )
    @@
    (
    (
    ("{\"phase_1\": {}, \"phase_2\": {\"branches\": []}, \"phase_3\": {}, \"s1_knowledge\": {}, \"user_input\": \"s\"}"
        :> <<"7", "3", "7", "6", "e", "2", "4", "8", "0", "b", "b", "9">>)
    @@
    ("{\"phase_1\": {}, \"phase_2\": {\"branches\": [null, \"x\", \"x\"]}, \"phase_3\": {}, \"s1_knowledge\": {}, \"user_input\": \"s\"}"
        :> <<"7", "5", "1", "7", "3", "7", "4", "f", "d", "6", "0", "a">>)
    )
    @@
    (
    ("{\"phase_1\": {}, \"phase_2\": {\"branches\": [null, \"x\", [\"l\"]]}, \"phase_3\": {}, \"s1_knowledge\": {}, \"user_input\": \"s\"}"
        :> <<"8", "7", "8", "0", "b", "9", "d", "9", "f", "4", "e", "b">>)
    @@
    (
    ("{\"phase_1\": {}, \"phase_2\": {\"branches\": [null, \"x\", null]}, \"phase_3\": {}, \"s1_knowledge\": {}, \"user_input\": \"s\"}"
        :> <<"3", "1", "b", "0", "c", "6", "7", "9", "d", "0", "4", "1">>)
    @@
    ("{\"phase_1\": {}, \"phase_2\": {\"branches\": [null, \"x\", {\"goal_impact\": \" \", \"name\": \" a \", \"result\": \"\"}]}, \"phase_3\": {}, \"s1_knowledge\": {}, \"user_input\": \"s\"}"
        :> <<"2", "b", "8", "6", "b", "6", "9", "d", "3", "8", "8", "5">>)
    )
    )
    )
    )
    @@
    (
    (
    (
    ("{\"phase_1\": {}, \"phase_2\": {\"branches\": [null, \"x\", {\"name\": null, \"result\": 5}]}, \"phase_3\": {}, \"s1_knowledge\": {}, \"user_input\": \"s\"}"
        :> <<"c", "4", "c", "f", "a", "c", "c", "e", "c", "e", "a", "6">>)
    @@
    ("{\"phase_1\": {}, \"phase_2\": {\"branches\": [null, \"x\", {}]}, \"phase_3\": {}, \"s1_knowledge\": {}, \"user_input\": \"s\"}"
        :> <<"a", "6", "6", "b", "c", "1", "0", "d", "e", "2", "0", "d">>)
    )
    @@
    (
    ("{\"phase_1\": {}, \"phase_2\": {\"branches\": [null, \"x\"]}, \"phase_3\": {}, \"s1_knowledge\": {}, \"user_input\": \"s\"}"
        :> <<"3", "1", "8", "3", "1", "1", "9", "0", "a", "4", "b", "7">>)
    @@
    (
    ("{\"phase_1\": {}, \"phase_2\": {\"branches\": [null, [\"l\"], \"x\"]}, \"phase_3\": {}, \"s1_knowledge\": {}, \"user_input\": \"s\"}"
        :> <<"1", "b", "c", "5", "a", "e", "b", "d", "9", "d", "c", "9">>)
    @@
    ("{\"phase_1\": {}, \"phase_2\": {\"branches\": [null, [\"l\"], [\"l\"]]}, \"phase_3\": {}, \"s1_knowledge\": {}, \"user_input\": \"s\"}"
        :> <<"3", "7", "3", "8", "5", "0", "8", "9", "0", "f", "3", "d">>)
    )
    )
    )
    @@
    (
    (
    ("{\"phase_1\": {}, \"phase_2\": {\"branches\": [null, [\"l\"], null]}, \"phase_3\": {}, \"s1_knowledge\": {}, \"user_input\": \"s\"}"
        :> <<"5", "0", "0", "3", "0", "4", "7", "7", "2", "2", "1", "f">>)
    @@
    ("{\"phase_1\": {}, \"phase_2\": {\"branches\": [null, [\"l\"], {\"goal_impact\": \" \", \"name\": \" a \", \"result\": \"\"}]}, \"phase_3\": {}, \"s1_knowledge\": {}, \"user_input\": \"s\"}"
        :> <<"1", "a", "5", "c", "b", "d", "1", "2", "f", "5", "8", "f">>)
    )
    @@
    (
    ("{\"phase_1\": {}, \"phase_2\": {\"branches\": [null, [\"l\"], {\"name\": null, \"result\": 5}]}, \"phase_3\": {}, \"s1_knowledge\": {}, \"user_input\": \"s\"}"
        :> <<"e", "4", "f", "4", "1", "4", "3", "d", "3", "2", "6", "4">>)
    @@
    (
    ("{\"phase_1\": {}, \"phase_2\": {\"branches\": [null, [\"l\"], {}]}, \"phase_3\": {}, \"s1_knowledge\": {}, \"user_input\": \"s\"}"
        :> <<"6", "b", "e", "4", "e", "0", "f", "e", "6", "5", "4", "3">>)
    @@
    ("{\"phase_1\": {}, \"phase_2\": {\"branches\": [null, [\"l\"]]}, \"phase_3\": {}, \"s1_knowledge\": {}, \"user_input\": \"s\"}"
        :> <<"8", "6", "c", "5", "b", "7", "f", "a", "6", "f", "a", "a">>)
    )
    )
    )
    )
    )
    )
    @@
    (
    (
    (
    (
    (
    ("{\"phase_1\": {}, \"phase_2\": {\"branches\": [null, null, \"x\"]}, \"phase_3\": {}, \"s1_knowledge\": {}, \"user_input\": \"s\"}"
        :> <<"8", "8", "2", "4", "4", "6", "b", "e", "1", "6", "a", "7">>)
    @@
    ("{\"phase_1\": {}, \"phase_2\": {\"branches\": [null, null, [\"l\"]]}, \"phase_3\": {}, \"s1_knowledge\": {}, \"user_input\": \"s\"}"
        :> <<"1", "e", "e", "f", "2", "b", "3", "f", "7", "7", "4", "f">>)
    )
    @@
    (
    ("{\"phase_1\": {}, \"phase_2\": {\"branches\": [null, null, null]}, \"phase_3\": {}, \"s1_knowledge\": {}, \"user_input\": \"s\"}"
        :> <<"1", "9", "f", "c", "7", "6", "4", "e", "e", "1", "2", "f">>)
    @@
    ("{\"phase_1\": {}, \"phase_2\": {\"branches\": [null, null, {\"goal_impact\": \" \", \"name\": \" a \", \"result\": \"\"}]}, \"phase_3\": {}, \"s1_knowledge\": {}, \"user_input\": \"s\"}"
        :> <<"e", "f", "e", "5", "8", "4", "f", "f", "1", "9", "e", "1">>)
    )
    )
    @@
    (
    (
    ("{\"phase_1\": {}, \"phase_2\": {\"branches\": [null, null, {\"name\": null, \"result\": 5}]}, \"phase_3\": {}, \"s1_knowledge\": {}, \"user_input\": \"s\"}"
        :> <<"7", "9", "4", "b", "f", "7", "8", "f", "2", "2", "b", "6">>)
    @@
    ("{\"phase_1\": {}, \"phase_2\": {\"branches\": [null, null, {}]}, \"phase_3\": {}, \"s1_knowledge\": {}, \"user_input\": \"s\"}"
        :> <<"9", "6", "2", "2", "4", "1", "4", "5", "2", "8", "4", "3">>)
    )
    @@
    (
    ("{\"phase_1\": {}, \"phase_2\": {\"branches\": [null, null]}, \"phase_3\": {}, \"s1_knowledge\": {}, \"user_input\": \"s\"}"
        :> <<"6", "2", "6", "f", "8", "5", "e", "f", "6", "4", "8", "b">>)
    @@
    (
    ("{\"phase_1\": {}, \"phase_2\": {\"branches\": [null, {\"goal_impact\": \" \", \"name\": \" a \", \"result\": \"\"}, \"x\"]}, \"phase_3\": {}, \"s1_knowledge\": {}, \"user_input\": \"s\"}"
        :> <<"5", "e", "3", "6", "9", "a", "2", "3", "f", "3", "e", "a">>)
    @@
    ("{\"phase_1\": {}, \"phase_2\": {\"branches\": [null, {\"goal_impact\": \" \", \"name\": \" a \", \"result\": \"\"}, [\"l\"]]}, \"phase_3\": {}, \"s1_knowledge\": {}, \"user_input\": \"s\"}"
        :> <<"4", "9", "0", "2", "e", "1", "e", "c", "2", "4", "c", "3">>)
    )
    )
    )
    )
    @@
    (
    (
    (
    ("{\"phase_1\": {}, \"phase_2\": {\"branches\": [null, {\"goal_impact\": \" \", \"name\": \" a \", \"result\": \"\"}, null]}, \"phase_3\": {}, \"s1_knowledge\": {}, \"user_input\": \"s\"}"
        :> <<"6", "4", "3", "5", "b", "1", "c", "d", "1", "8", "7", "6">>)
    @@
    ("{\"phase_1\": {}, \"phase_2\": {\"branches\": [null, {\"goal_impact\": \" \", \"name\": \" a \", \"result\": \"\"}, {\"goal_impact\": \" \", \"name\": \" a \", \"result\": \"\"}]}, \"phase_3\": {}, \"s1_knowledge\": {}, \"user_input\": \"s\"}"
        :> <<"a", "c", "8", "f", "5", "e", "4", "7", "4", "7", "8", "7">>)
    )
    @@
    (
    ("{\"phase_1\": {}, \"phase_2\": {\"branches\": [null, {\"goal_impact\": \" \", \"name\": \" a \", \"result\": \"\"}, {\"name\": null, \"result\": 5}]}, \"phase_3\": {}, \"s1_knowledge\": {}, \"user_input\": \"s\"}"
        :> <<"6", "d", "d", "a", "4", "6", "0", "c", "7", "2", "d", "2">>)
    @@
    (
    ("{\"phase_1\": {}, \"phase_2\": {\"branches\": [null, {\"goal_impact\": \" \", \"name\": \" a \", \"result\": \"\"}, {}]}, \"phase_3\": {}, \"s1_knowledge\": {}, \"user_input\": \"s\"}"
        :> <<"9", "c", "9", "6", "a", "3", "2", "a", "4", "0", "2", "5">>)
    @@
    ("{\"phase_1\": {}, \"phase_2\": {\"branches\": [null, {\"goal_impact\": \" \", \"name\": \" a \", \"result\": \"\"}]}, \"phase_3\": {}, \"s1_knowledge\": {}, \"user_input\": \"s\"}"
        :> <<"e", "c", "8", "4", "1", "7", "8", "5", "3", "4", "5", "a">>)
    )
    )
    )
    @@
    (
    (
    ("{\"phase_1\": {}, \"phase_2\": {\"branches\": [null, {\"name\": null, \"result\": 5}, \"x\"]}, \"phase_3\": {}, \"s1_knowledge\": {}, \"user_input\": \"s\"}"
        :> <<"e", "3", "4", "f", "1", "3", "d", "e", "7", "9", "f", "c">>)
    @@
    ("{\"phase_1\": {}, \"phase_2\": {\"branches\": [null, {\"name\": null, \"result\": 5}, [\"l\"]]}, \"phase_3\": {}, \"s1_knowledge\": {}, \"user_input\": \"s\"}"
        :> <<"4", "1", "8", "3", "6", "2", "0", "8", "1", "1", "7", "6">>)
    )
    @@
    (
    ("{\"phase_1\": {}, \"phase_2\": {\"branches\": [null, {\"name\": null, \"result\": 5}, null]}, \"phase_3\": {}, \"s1_knowledge\": {}, \"user_input\": \"s\"}"
        :> <<"f", "1", "5", "4", "e", "c", "b", "7", "2", "b", "3", "f">>)
    @@
    (
    ("{\"phase_1\": {}, \"phase_2\": {\"branches\": [null, {\"name\": null, \"result\": 5}, {\"goal_impact\": \" \", \"name\": \" a \", \"result\": \"\"}]}, \"phase_3\": {}, \"s1_knowledge\": {}, \"user_input\": \"s\"}"
        :> <<"b", "d", "e", "1", "7", "8", "d", "c", "c", "7", "e", "6">>)
    @@
    ("{\"phase_1\": {}, \"phase_2\": {\"branches\": [null, {\"name\": null, \"result\": 5}, {\"name\": null, \"result\": 5}]}, \"phase_3\": {}, \"s1_knowledge\": {}, \"user_input\": \"s\"}"
        :> <<"a", "f", "1", "0", "5", "7", "d", "9", "b", "f", "4", "6">>)
    )
    )
    )
    )
    )
    @@
    (
    (
    (
    (
    ("{\"phase_1\": {}, \"phase_2\": {\"branches\": [null, {\"name\": null, \"result\": 5}, {}]}, \"phase_3\": {}, \"s1_knowledge\": {}, \"user_input\": \"s\"}"
        :> <<"f", "0", "2", "d", "8", "8", "0", "0", "c", "9", "9", "a">>)
    @@
    ("{\"phase_1\": {}, \"phase_2\": {\"branches\": [null, {\"name\": null, \"result\": 5}]}, \"phase_3\": {}, \"s1_knowledge\": {}, \"user_input\": \"s\"}"
        :> <<"4", "e", "f", "c", "8", "9", "1", "7", "a", "a", "c", "a">>)
    )
    @@
    (
    ("{\"phase_1\": {}, \"phase_2\": {\"branches\": [null, {}, \"x\"]}, \"phase_3\": {}, \"s1_knowledge\": {}, \"user_input\": \"s\"}"
        :> <<"f", "2", "9", "5", "2", "4", "6", "0", "7", "2", "b", "f">>)
    @@
    ("{\"phase_1\": {}, \"phase_2\": {\"branches\": [null, {}, [\"l\"]]}, \"phase_3\": {}, \"s1_knowledge\": {}, \"user_input\": \"s\"}"
        :> <<"1", "5", "2", "b", "3", "f", "6", "8", "2", "d", "4", "3">>)
    )
    )
    @@
    (
    (
    ("{\"phase_1\": {}, \"phase_2\": {\"branches\": [null, {}, null]}, \"phase_3\": {}, \"s1_knowledge\": {}, \"user_input\": \"s\"}"
        :> <<"3", "9", "8", "d", "4", "6", "7", "1", "1", "3", "0", "c">>)
    @@
    ("{\"phase_1\": {}, \"phase_2\": {\"branches\": [null, {}, {\"goal_impact\": \" \", \"name\": \" a \", \"result\": \"\"}]}, \"phase_3\": {}, \"s1_knowledge\": {}, \"user_input\": \"s\"}"
        :> <<"d", "5", "c", "8", "e", "7", "f", "0", "2", "b", "7", "4">>)
    )
    @@
    (
    ("{\"phase_1\": {}, \"phase_2\": {\"branches\": [null, {}, {\"name\": null, \"result\": 5}]}, \"phase_3\": {}, \"s1_knowledge\": {}, \"user_input\": \"s\"}"
        :> <<"f", "0", "9", "d", "9", "7", "6", "4", "6", "e", "9", "5">>)
    @@
    (
    ("{\"phase_1\": {}, \"phase_2\": {\"branches\": [null, {}, {}]}, \"phase_3\": {}, \"s1_knowledge\": {}, \"user_input\": \"s\"}"
        :> <<"4", "9", "0", "2", "d", "4", "a", "0", "c", "1", "6", "a">>)
    @@
    ("{\"phase_1\": {}, \"phase_2\": {\"branches\": [null, {}]}, \"phase_3\": {}, \"s1_knowledge\": {}, \"user_input\": \"s\"}"
        :> <<"0", "e", "e", "a", "0", "b", "d", "1", "8", "5", "4", "e">>)
    )
    )
    )
    )
    @@
    (
    (
    (
    ("{\"phase_1\": {}, \"phase_2\": {\"branches\": [null]}, \"phase_3\": {}, \"s1_knowledge\": {}, \"user_input\": \"s\"}"
        :> <<"0", "b", "1", "e", "a", "1", "2", "c", "8", "5", "f", "8">>)
    @@
    ("{\"phase_1\": {}, \"phase_2\": {\"branches\": [{\"goal_impact\": \" \", \"name\": \" a \", \"result\": \"\"}, \"x\", \"x\"]}, \"phase_3\": {}, \"s1_knowledge\": {}, \"user_input\": \"s\"}"
        :> <<"b", "c", "9", "f", "0", "1", "e", "3", "8", "9", "a", "d">>)
    )
    @@
    (
    ("{\"phase_1\": {}, \"phase_2\": {\"branches\": [{\"goal_impact\": \" \", \"name\": \" a \", \"result\": \"\"}, \"x\", [\"l\"]]}, \"phase_3\": {}, \"s1_knowledge\": {}, \"user_input\": \"s\"}"
        :> <<"0", "b", "2", "2", "0", "4", "4", "b", "e", "f", "3", "2">>)
    @@
    (
    ("{\"phase_1\": {}, \"phase_2\": {\"branches\": [{\"goal_impact\": \" \", \"name\": \" a \", \"result\": \"\"}, \"x\", null]}, \"phase_3\": {}, \"s1_knowledge\": {}, \"user_input\": \"s\"}"
        :> <<"a", "7", "8", "1", "4", "7", "a", "5", "9", "0", "a", "9">>)
    @@
    ("{\"phase_1\": {}, \"phase_2\": {\"branches\": [{\"goal_impact\": \" \", \"name\": \" a \", \"result\": \"\"}, \"x\", {\"goal_impact\": \" \", \"name\": \" a \", \"result\": \"\"}]}, \"phase_3\": {}, \"s1_knowledge\": {}, \"user_input\": \"s\"}"
        :> <<"8", "4", "f", "9", "6", "7", "5", "3", "0", "9", "1", "d">>)
    )
    )
    )
    @@
    (
    (
    ("{\"phase_1\": {}, \"phase_2\": {\"branches\": [{\"goal_impact\": \" \", \"name\": \" a \", \"result\": \"\"}, \"x\", {\"name\": null, \"result\": 5}]}, \"phase_3\": {}, \"s1_knowledge\": {}, \"user_input\": \"s\"}"
        :> <<"1", "2", "d", "4", "e", "d", "b", "9", "6", "c", "2", "d">>)
    @@
    ("{\"phase_1\": {}, \"phase_2\": {\"branches\": [{\"goal_impact\": \" \", \"name\": \" a \", \"result\": \"\"}, \"x\", {}]}, \"phase_3\": {}, \"s1_knowledge\": {}, \"user_input\": \"s\"}"
        :> <<"f", "a", "f", "7", "c", "c", "c", "9", "5", "9", "d", "5">>)
    )
    @@
    (
    ("{\"phase_1\": {}, \"phase_2\": {\"branches\": [{\"goal_impact\": \" \", \"name\": \" a \", \"result\": \"\"}, \"x\"]}, \"phase_3\": {}, \"s1_knowledge\": {}, \"user_input\": \"s\"}"
        :> <<"7", "b", "7", "c", "8", "e", "9", "b", "c", "2", "4", "4">>)
    @@
    (
    ("{\"phase_1\": {}, \"phase_2\": {\"branches\": [{\"goal_impact\": \" \", \"name\": \" a \", \"result\": \"\"}, [\"l\"], \"x\"]}, \"phase_3\": {}, \"s1_knowledge\": {}, \"user_input\": \"s\"}"
        :> <<"1", "6", "d", "2", "0", "2", "b", "e", "a", "3", "6", "7">>)
    @@
    ("{\"phase_1\": {}, \"phase_2\": {\"branches\": [{\"goal_impact\": \" \", \"name\": \" a \", \"result\": \"\"}, [\"l\"], [\"l\"]]}, \"phase_3\": {}, \"s1_knowledge\": {}, \"user_input\": \"s\"}"
        :> <<"9", "c", "8", "d", "e", "8", "7", "a", "e", "a", "8", "d">>)
    )
    )
    )
    )
    )
    )
    )
    @@
    (
    (
    (
    (
    (
    (
    ("{\"phase_1\": {}, \"phase_2\": {\"branches\": [{\"goal_impact\": \" \", \"name\": \" a \", \"result\": \"\"}, [\"l\"], null]}, \"phase_3\": {}, \"s1_knowledge\": {}, \"user_input\": \"s\"}"
        :> <<"9", "7", "2", "6", "2", "8", "f", "2", "0", "6", "8", "b">>)
    @@
    ("{\"phase_1\": {}, \"phase_2\": {\"branches\": [{\"goal_impact\": \" \", \"name\": \" a \", \"result\": \"\"}, [\"l\"], {\"goal_impact\": \" \", \"name\": \" a \", \"result\": \"\"}]}, \"phase_3\": {}, \"s1_knowledge\": {}, \"user_input\": \"s\"}"
        :> <<"b", "0", "6", "e", "4", "4", "c", "9", "f", "8", "3", "e">>)
    )
    @@
    (
    ("{\"phase_1\": {}, \"phase_2\": {\"branches\": [{\"goal_impact\": \" \", \"name\": \" a \", \"result\": \"\"}, [\"l\"], {\"name\": null, \"result\": 5}]}, \"phase_3\": {}, \"s1_knowledge\": {}, \"user_input\": \"s\"}"
        :> <<"3", "8", "a", "d", "f", "a", "6", "6", "2", "f", "d", "6">>)
    @@
    ("{\"phase_1\": {}, \"phase_2\": {\"branches\": [{\"goal_impact\": \" \", \"name\": \" a \", \"result\": \"\"}, [\"l\"], {}]}, \"phase_3\": {}, \"s1_knowledge\": {}, \"user_input\": \"s\"}"
        :> <<"9", "f", "8", "a", "9", "9", "3", "d", "5", "d", "8", "9">>)
    )
    )
    @@
    (
    (
    ("{\"phase_1\": {}, \"phase_2\": {\"branches\": [{\"goal_impact\": \" \", \"name\": \" a \", \"result\": \"\"}, [\"l\"]]}, \"phase_3\": {}, \"s1_knowledge\": {}, \"user_input\": \"s\"}"
        :> <<"7", "9", "9", "0", "b", "a", "9", "1", "d", "7", "3", "2">>)
    @@
    ("{\"phase_1\": {}, \"phase_2\": {\"branches\": [{\"goal_impact\": \" \", \"name\": \" a \", \"result\": \"\"}, null, \"x\"]}, \"phase_3\": {}, \"s1_knowledge\": {}, \"user_input\": \"s\"}"
        :> <<"9", "b", "6", "6", "b", "3", "1", "f", "4", "1", "f", "5">>)
    )
    @@
    (
    ("{\"phase_1\": {}, \"phase_2\": {\"branches\": [{\"goal_impact\": \" \", \"name\": \" a \", \"result\": \"\"}, null, [\"l\"]]}, \"phase_3\": {}, \"s1_knowledge\": {}, \"user_input\": \"s\"}"
        :> <<"4", "7", "4", "b", "f", "f", "6", "5", "5", "c", "5", "2">>)
    @@
    (
    ("{\"phase_1\": {}, \"phase_2\": {\"branches\": [{\"goal_impact\": \" \", \"name\": \" a \", \"result\": \"\"}, null, null]}, \"phase_3\": {}, \"s1_knowledge\": {}, \"user_input\": \"s\"}"
        :> <<"b", "a", "5", "9", "b", "f", "5", "4", "f", "2", "d", "1">>)
    @@
    ("{\"phase_1\": {}, \"phase_2\": {\"branches\": [{\"goal_impact\": \" \", \"name\": \" a \", \"result\": \"\"}, null, {\"goal_impact\": \" \", \"name\": \" a \", \"result\": \"\"}]}, \"phase_3\": {}, \"s1_knowledge\": {}, \"user_input\": \"s\"}"
        :> <<"b", "0", "0", "1", "0", "2", "0", "d", "4", "b", "0", "7">>)
    )
    )
    )
    )
    @@
    (
    (
    (
    ("{\"phase_1\": {}, \"phase_2\": {\"branches\": [{\"goal_impact\": \" \", \"name\": \" a \", \"result\": \"\"}, null, {\"name\": null, \"result\": 5}]}, \"phase_3\": {}, \"s1_knowledge\": {}, \"user_input\": \"s\"}"
        :> <<"e", "5", "d", "a", "9", "5", "6", "6", "6", "8", "d", "2">>)
    @@
    ("{\"phase_1\": {}, \"phase_2\": {\"branches\": [{\"goal_impact\": \" \", \"name\": \" a \", \"result\": \"\"}, null, {}]}, \"phase_3\": {}, \"s1_knowledge\": {}, \"user_input\": \"s\"}"
        :> <<"7", "6", "c", "3", "7", "6", "7", "4", "a", "3", "5", "f">>)
    )
    @@
    (
    ("{\"phase_1\": {}, \"phase_2\": {\"branches\": [{\"goal_impact\": \" \", \"name\": \" a \", \"result\": \"\"}, null]}, \"phase_3\": {}, \"s1_knowledge\": {}, \"user_input\": \"s\"}"
        :> <<"2", "6", "c", "b", "4", "7", "7", "d", "4", "9", "5", "c">>)
    @@
    (
    ("{\"phase_1\": {}, \"phase_2\": {\"branches\": [{\"goal_impact\": \" \", \"name\": \" a \", \"result\": \"\"}, {\"goal_impact\": \" \", \"name\": \" a \", \"result\": \"\"}, \"x\"]}, \"phase_3\": {}, \"s1_knowledge\": {}, \"user_input\": \"s\"}"
        :> <<"c", "c", "e", "2", "e", "4", "8", "7", "1", "3", "3", "2">>)
    @@
    ("{\"phase_1\": {}, \"phase_2\": {\"branches\": [{\"goal_impact\": \" \", \"name\": \" a \", \"result\": \"\"}, {\"goal_impact\": \" \", \"name\": \" a \", \"result\": \"\"}, [\"l\"]]}, \"phase_3\": {}, \"s1_knowledge\": {}, \"user_input\": \"s\"}"
        :> <<"3", "d", "4", "b", "5", "9", "f", "2", "b", "3", "e", "d">>)
    )
    )
    )
    @@
    (
    (
    ("{\"phase_1\": {}, \"phase_2\": {\"branches\": [{\"goal_impact\": \" \", \"name\": \" a \", \"result\": \"\"}, {\"goal_impact\": \" \", \"name\": \" a \", \"result\": \"\"}, null]}, \"phase_3\": {}, \"s1_knowledge\": {}, \"user_input\": \"s\"}"
        :> <<"8", "0", "2", "7", "4", "0", "f", "3", "1", "d", "3", "e">>)
    @@
    ("{\"phase_1\": {}, \"phase_2\": {\"branches\": [{\"goal_impact\": \" \", \"name\": \" a \", \"result\": \"\"}, {\"goal_impact\": \" \", \"name\": \" a \", \"result\": \"\"}, {\"goal_impact\": \" \", \"name\": \" a \", \"result\": \"\"}]}, \"phase_3\": {}, \"s1_knowledge\": {}, \"user_input\": \"s\"}"
        :> <<"9", "a", "a", "5", "5", "2", "0", "d", "0", "d", "7", "9">>)
    )
    @@
    (
    ("{\"phase_1\": {}, \"phase_2\": {\"branches\": [{\"goal_impact\": \" \", \"name\": \" a \", \"result\": \"\"}, {\"goal_impact\": \" \", \"name\": \" a \", \"result\": \"\"}, {\"name\": null, \"result\": 5}]}, \"phase_3\": {}, \"s1_knowledge\": {}, \"user_input\": \"s\"}"
        :> <<"6", "d", "5", "d", "0", "3", "9", "f", "d", "5", "d", "4">>)
    @@
    (
    ("{\"phase_1\": {}, \"phase_2\": {\"branches\": [{\"goal_impact\": \" \", \"name\": \" a \", \"result\": \"\"}, {\"goal_impact\": \" \", \"name\": \" a \", \"result\": \"\"}, {}]}, \"phase_3\": {}, \"s1_knowledge\": {}, \"user_input\": \"s\"}"
        :> <<"d", "5", "e", "d", "7", "6", "0", "9", "7", "f", "9", "6">>)
    @@
    ("{\"phase_1\": {}, \"phase_2\": {\"branches\": [{\"goal_impact\": \" \", \"name\": \" a \", \"result\": \"\"}, {\"goal_impact\": \" \", \"name\": \" a \", \"result\": \"\"}]}, \"phase_3\": {}, \"s1_knowledge\": {}, \"user_input\": \"s\"}"
        :> <<"5", "4", "f", "f", "3", "5", "7", "5", "7", "a", "b", "8">>)
    )
    )
    )
    )
    )
    @@
    (
    (
    (
    (
    ("{\"phase_1\": {}, \"phase_2\": {\"branches\": [{\"goal_impact\": \" \", \"name\": \" a \", \"result\": \"\"}, {\"name\": null, \"result\": 5}, \"x\"]}, \"phase_3\": {}, \"s1_knowledge\": {}, \"user_input\": \"s\"}"
        :> <<"9", "d", "1", "b", "4", "b", "2", "f", "b", "d", "d", "b">>)
    @@
    ("{\"phase_1\": {}, \"phase_2\": {\"branches\": [{\"goal_impact\": \" \", \"name\": \" a \", \"result\": \"\"}, {\"name\": null, \"result\": 5}, [\"l\"]]}, \"phase_3\": {}, \"s1_knowledge\": {}, \"user_input\": \"s\"}"
        :> <<"6", "7", "f", "1", "4", "8", "b", "6", "b", "2", "c", "1">>)
    )
    @@
    (
    ("{\"phase_1\": {}, \"phase_2\": {\"branches\": [{\"goal_impact\": \" \", \"name\": \" a \", \"result\": \"\"}, {\"name\": null, \"result\": 5}, null]}, \"phase_3\": {}, \"s1_knowledge\": {}, \"user_input\": \"s\"}"
        :> <<"8", "0", "9", "b", "2", "f", "f", "5", "8", "2", "7", "5">>)
    @@
    ("{\"phase_1\": {}, \"phase_2\": {\"branches\": [{\"goal_impact\": \" \", \"name\": \" a \", \"result\": \"\"}, {\"name\": null, \"result\": 5}, {\"goal_impact\": \" \", \"name\": \" a \", \"result\": \"\"}]}, \"phase_3\": {}, \"s1_knowledge\": {}, \"user_input\": \"s\"}"
        :> <<"f", "2", "0", "f", "d", "1", "a", "6", "d", "b", "9", "a">>)
    )
    )
    @@
    (
    (
    ("{\"phase_1\": {}, \"phase_2\": {\"branches\": [{\"goal_impact\": \" \", \"name\": \" a \", \"result\": \"\"}, {\"name\": null, \"result\": 5}, {\"name\": null, \"result\": 5}]}, \"phase_3\": {}, \"s1_knowledge\": {}, \"user_input\": \"s\"}"
        :> <<"9", "a", "9", "3", "c", "4", "7", "9", "7", "d", "9", "9">>)
    @@
    ("{\"phase_1\": {}, \"phase_2\": {\"branches\": [{\"goal_impact\": \" \", \"name\": \" a \", \"result\": \"\"}, {\"name\": null, \"result\": 5}, {}]}, \"phase_3\": {}, \"s1_knowledge\": {}, \"user_input\": \"s\"}"
        :> <<"e", "1", "7", "7", "f", "9", "6", "b", "2", "b", "6", "0">>)
    )
    @@
    (
    ("{\"phase_1\": {}, \"phase_2\": {\"branches\": [{\"goal_impact\": \" \", \"name\": \" a \", \"result\": \"\"}, {\"name\": null, \"result\": 5}]}, \"phase_3\": {}, \"s1_knowledge\": {}, \"user_input\": \"s\"}"
        :> <<"3", "5", "c", "9", "1", "2", "3", "8", "b", "4", "4", "3">>)
    @@
    (
    ("{\"phase_1\": {}, \"phase_2\": {\"branches\": [{\"goal_impact\": \" \", \"name\": \" a \", \"result\": \"\"}, {}, \"x\"]}, \"phase_3\": {}, \"s1_knowledge\": {}, \"user_input\": \"s\"}"
        :> <<"8", "f", "c", "c", "8", "7", "b", "d", "8", "a", "a", "9">>)
    @@
    ("{\"phase_1\": {}, \"phase_2\": {\"branches\": [{\"goal_impact\": \" \", \"name\": \" a \", \"result\": \"\"}, {}, [\"l\"]]}, \"phase_3\": {}, \"s1_knowledge\": {}, \"user_input\": \"s\"}"
        :> <<"b", "9", "0", "f", "0", "c", "4", "0", "6", "8", "7", "c">>)
    )
    )
    )
    )
    @@
    (
    (
    (
    ("{\"phase_1\": {}, \"phase_2\": {\"branches\": [{\"goal_impact\": \" \", \"name\": \" a \", \"result\": \"\"}, {}, null]}, \"phase_3\": {}, \"s1_knowledge\": {}, \"user_input\": \"s\"}"
        :> <<"5", "e", "8", "b", "c", "5", "1", "6", "7", "9", "3", "f">>)
    @@
    ("{\"phase_1\": {}, \"phase_2\": {\"branches\": [{\"goal_impact\": \" \", \"name\": \" a \", \"result\": \"\"}, {}, {\"goal_impact\": \" \", \"name\": \" a \", \"result\": \"\"}]}, \"phase_3\": {}, \"s1_knowledge\": {}, \"user_input\": \"s\"}"
        :> <<"a", "6", "b", "8", "9", "8", "d", "e", "d", "1", "3", "4">>)
    )
    @@
    (
    ("{\"phase_1\": {}, \"phase_2\": {\"branches\": [{\"goal_impact\": \" \", \"name\": \" a \", \"result\": \"\"}, {}, {\"name\": null, \"result\": 5}]}, \"phase_3\": {}, \"s1_knowledge\": {}, \"user_input\": \"s\"}"
        :> <<"e", "1", "c", "6", "4", "1", "e", "a", "d", "e", "6", "7">>)
    @@
    (
    ("{\"phase_1\": {}, \"phase_2\": {\"branches\": [{\"goal_impact\": \" \", \"name\": \" a \", \"result\": \"\"}, {}, {}]}, \"phase_3\": {}, \"s1_knowledge\": {}, \"user_input\": \"s\"}"
        :> <<"b", "a", "5", "0", "9", "5", "5", "8", "a", "5", "2", "f">>)
    @@
    ("{\"phase_1\": {}, \"phase_2\": {\"branches\": [{\"goal_impact\": \" \", \"name\": \" a \", \"result\": \"\"}, {}]}, \"phase_3\": {}, \"s1_knowledge\": {}, \"user_input\": \"s\"}"
        :> <<"f", "c", "b", "5", "5", "7", "a", "6", "9", "f", "f", "6">>)
    )
    )
    )
    @@
    (
    (
    ("{\"phase_1\": {}, \"phase_2\": {\"branches\": [{\"goal_impact\": \" \", \"name\": \" a \", \"result\": \"\"}]}, \"phase_3\": {}, \"s1_knowledge\": {}, \"user_input\": \"s\"}"
        :> <<"8", "7", "b", "a", "c", "4", "b", "c", "d", "7", "4", "2">>)
    @@
    ("{\"phase_1\": {}, \"phase_2\": {\"branches\": [{\"name\": \"b\"}, \"x\"]}, \"phase_3\": {\"contradiction_path\": [\"a\", \" \", \"b\"], \"mitigation\": \"m\", \"paradox_type\": \"Falsidical\", \"reasoning\": \" r \"}, \"s1_knowledge\": {\"knowledge_gaps\": [\"g\"]}, \"user_input\": \"s\"}"
        :> <<"a", "e", "9", "9", "b", "b", "b", "4", "e", "0", "d", "3">>)
    )
    @@
    (
    ("{\"phase_1\": {}, \"phase_2\": {\"branches\": [{\"name\": \"b\"}, \"x\"]}, \"phase_3\": {\"contradiction_path\": [\"a\", \" \", \"b\"], \"mitigation\": \"m\", \"paradox_type\": \"Falsidical\", \"reasoning\": \" r \"}, \"s1_knowledge\": {\"knowledge_gaps\": [\"g\"]}, \"user_input\": \"t\"}"
        :> <<"e", "d", "0", "0", "6", "f", "2", "f", "8", "f", "e", "a">>)
    @@
    (
    ("{\"phase_1\": {}, \"phase_2\": {\"branches\": [{\"name\": \"b\"}, \"x\"]}, \"phase_3\": {\"contradiction_path\": [\"a\", \" \", \"b\"], \"mitigation\": \"m\", \"paradox_type\": \"Falsidical\", \"reasoning\": \" r \"}, \"s1_knowledge\": {}, \"user_input\": \"s\"}"
        :> <<"9", "2", "d", "6", "e", "9", "0", "0", "0", "f", "f", "9">>)
    @@
    ("{\"phase_1\": {}, \"phase_2\": {\"branches\": [{\"name\": \"b\"}, \"x\"]}, \"phase_3\": {\"contradiction_path\": [\"a\", \" \", \"b\"], \"mitigation\": \"m\", \"paradox_type\": \"Falsidical\", \"reasoning\": \" r \"}, \"s1_knowledge\": {}, \"user_input\": \"t\"}"
        :> <<"4", "0", "2", "3", "e", "2", "3", "c", "6", "f", "c", "d">>)
    )
    )
    )
    )
    )
    )
    @@
    (
    (
    (
    (
    (
    ("{\"phase_1\": {}, \"phase_2\": {\"branches\": [{\"name\": \"b\"}, \"x\"]}, \"phase_3\": {\"n\": 10106858, \"paradox_type\": \"Antinomy\"}, \"s1_knowledge\": {\"knowledge_gaps\": [\"g\"]}, \"user_input\": \"s\"}"
        :> <<"c", "e", "e", "e", "b", "3", "a", "0", "f", "f", "1", "4">>)
    @@
    ("{\"phase_1\": {}, \"phase_2\": {\"branches\": [{\"name\": \"b\"}, \"x\"]}, \"phase_3\": {\"n\": 10106858, \"paradox_type\": \"Antinomy\"}, \"s1_knowledge\": {\"knowledge_gaps\": [\"g\"]}, \"user_input\": \"t\"}"
        :> <<"d", "9", "5", "9", "e", "6", "d", "5", "1", "0", "9", "5">>)
    )
    @@
    (
    ("{\"phase_1\": {}, \"phase_2\": {\"branches\": [{\"name\": \"b\"}, \"x\"]}, \"phase_3\": {\"n\": 10106858, \"paradox_type\": \"Antinomy\"}, \"s1_knowledge\": {}, \"user_input\": \"s\"}"
        :> <<"1", "6", "d", "6", "f", "3", "6", "7", "2", "3", "e", "d">>)
    @@
    ("{\"phase_1\": {}, \"phase_2\": {\"branches\": [{\"name\": \"b\"}, \"x\"]}, \"phase_3\": {\"n\": 10106858, \"paradox_type\": \"Antinomy\"}, \"s1_knowledge\": {}, \"user_input\": \"t\"}"
        :> <<"7", "2", "7", "c", "1", "f", "e", "d", "4", "b", "1", "2">>)
    )
    )
    @@
    (
    (
    ("{\"phase_1\": {}, \"phase_2\": {\"branches\": [{\"name\": \"b\"}, \"x\"]}, \"phase_3\": {\"n\": 13359876, \"paradox_type\": \"Antinomy\"}, \"s1_knowledge\": {\"knowledge_gaps\": [\"g\"]}, \"user_input\": \"s\"}"
        :> <<"b", "4", "b", "d", "8", "6", "5", "6", "3", "e", "e", "f">>)
    @@
    ("{\"phase_1\": {}, \"phase_2\": {\"branches\": [{\"name\": \"b\"}, \"x\"]}, \"phase_3\": {\"n\": 13359876, \"paradox_type\": \"Antinomy\"}, \"s1_knowledge\": {\"knowledge_gaps\": [\"g\"]}, \"user_input\": \"t\"}"
        :> <<"b", "d", "b", "2", "4", "d", "9", "0", "c", "d", "9", "0">>)
    )
    @@
    (
    ("{\"phase_1\": {}, \"phase_2\": {\"branches\": [{\"name\": \"b\"}, \"x\"]}, \"phase_3\": {\"n\": 13359876, \"paradox_type\": \"Antinomy\"}, \"s1_knowledge\": {}, \"user_input\": \"s\"}"
        :> <<"8", "f", "0", "9", "5", "9", "4", "b", "2", "5", "9", "d">>)
    @@
    (
    ("{\"phase_1\": {}, \"phase_2\": {\"branches\": [{\"name\": \"b\"}, \"x\"]}, \"phase_3\": {\"n\": 13359876, \"paradox_type\": \"Antinomy\"}, \"s1_knowledge\": {}, \"user_input\": \"t\"}"
        :> <<"7", "4", "3", "5", "a", "4", "d", "1", "c", "0", "f", "7">>)
    @@
    ("{\"phase_1\": {}, \"phase_2\": {\"branches\": [{\"name\": \"b\"}, \"x\"]}, \"phase_3\": {\"paradox_type\": \" \"}, \"s1_knowledge\": {\"knowledge_gaps\": [\"g\"]}, \"user_input\": \"s\"}"
        :> <<"0", "d", "8", "b", "f", "c", "c", "8", "6", "6", "8", "4">>)
    )
    )
    )
    )
    @@
    (
    (
    (
    ("{\"phase_1\": {}, \"phase_2\": {\"branches\": [{\"name\": \"b\"}, \"x\"]}, \"phase_3\": {\"paradox_type\": \" \"}, \"s1_knowledge\": {\"knowledge_gaps\": [\"g\"]}, \"user_input\": \"t\"}"
        :> <<"a", "f", "3", "c", "c", "9", "1", "c", "2", "1", "5", "c">>)
    @@
    ("{\"phase_1\": {}, \"phase_2\": {\"branches\": [{\"name\": \"b\"}, \"x\"]}, \"phase_3\": {\"paradox_type\": \" \"}, \"s1_knowledge\": {}, \"user_input\": \"s\"}"
        :> <<"0", "f", "3", "2", "8", "a", "2", "1", "6", "e", "0", "5">>)
    )
    @@
    (
    ("{\"phase_1\": {}, \"phase_2\": {\"branches\": [{\"name\": \"b\"}, \"x\"]}, \"phase_3\": {\"paradox_type\": \" \"}, \"s1_knowledge\": {}, \"user_input\": \"t\"}"
        :> <<"7", "4", "c", "6", "5", "f", "6", "9", "e", "0", "4", "d">>)
    @@
    (
    ("{\"phase_1\": {}, \"phase_2\": {\"branches\": [{\"name\": \"b\"}, \"x\"]}, \"phase_3\": {\"paradox_type\": \" Veridical \"}, \"s1_knowledge\": {\"knowledge_gaps\": [\"g\"]}, \"user_input\": \"s\"}"
        :> <<"5", "3", "c", "9", "6", "9", "8", "0", "5", "b", "4", "e">>)
    @@
    ("{\"phase_1\": {}, \"phase_2\": {\"branches\": [{\"name\": \"b\"}, \"x\"]}, \"phase_3\": {\"paradox_type\": \" Veridical \"}, \"s1_knowledge\": {\"knowledge_gaps\": [\"g\"]}, \"user_input\": \"t\"}"
        :> <<"b", "5", "1", "3", "2", "6", "a", "8", "3", "0", "c", "c">>)
    )
    )
    )
    @@
    (
    (
    ("{\"phase_1\": {}, \"phase_2\": {\"branches\": [{\"name\": \"b\"}, \"x\"]}, \"phase_3\": {\"paradox_type\": \" Veridical \"}, \"s1_knowledge\": {}, \"user_input\": \"s\"}"
        :> <<"0", "2", "9", "a", "4", "2", "7", "b", "c", "a", "6", "0">>)
    @@
    ("{\"phase_1\": {}, \"phase_2\": {\"branches\": [{\"name\": \"b\"}, \"x\"]}, \"phase_3\": {\"paradox_type\": \" Veridical \"}, \"s1_knowledge\": {}, \"user_input\": \"t\"}"
        :> <<"7", "e", "3", "8", "e", "9", "8", "9", "c", "3", "1", "c">>)
    )
    @@
    (
    ("{\"phase_1\": {}, \"phase_2\": {\"branches\": [{\"name\": \"b\"}, \"x\"]}, \"phase_3\": {\"paradox_type\": \"Liar\"}, \"s1_knowledge\": {\"knowledge_gaps\": [\"g\"]}, \"user_input\": \"s\"}"
        :> <<"9", "2", "b", "6", "f", "1", "c", "3", "d", "d", "f", "a">>)
    @@
    (
    ("{\"phase_1\": {}, \"phase_2\": {\"branches\": [{\"name\": \"b\"}, \"x\"]}, \"phase_3\": {\"paradox_type\": \"Liar\"}, \"s1_knowledge\": {\"knowledge_gaps\": [\"g\"]}, \"user_input\": \"t\"}"
        :> <<"1", "5", "9", "5", "6", "6", "a", "a", "b", "b", "7", "2">>)
    @@
    ("{\"phase_1\": {}, \"phase_2\": {\"branches\": [{\"name\": \"b\"}, \"x\"]}, \"phase_3\": {\"paradox_type\": \"Liar\"}, \"s1_knowledge\": {}, \"user_input\": \"s\"}"
        :> <<"4", "e", "e", "2", "9", "d", "2", "1", "e", "7", "5", "9">>)
    )
    )
    )
    )
    )
    @@
    (
    (
    (
    (
    ("{\"phase_1\": {}, \"phase_2\": {\"branches\": [{\"name\": \"b\"}, \"x\"]}, \"phase_3\": {\"paradox_type\": \"Liar\"}, \"s1_knowledge\": {}, \"user_input\": \"t\"}"
        :> <<"3", "8", "1", "f", "f", "9", "a", "4", "4", "c", "6", "c">>)
    @@
    ("{\"phase_1\": {}, \"phase_2\": {\"branches\": [{\"name\": \"b\"}, \"x\"]}, \"phase_3\": {\"paradox_type\": 5}, \"s1_knowledge\": {\"knowledge_gaps\": [\"g\"]}, \"user_input\": \"s\"}"
        :> <<"6", "0", "4", "e", "1", "2", "6", "e", "f", "e", "8", "f">>)
    )
    @@
    (
    ("{\"phase_1\": {}, \"phase_2\": {\"branches\": [{\"name\": \"b\"}, \"x\"]}, \"phase_3\": {\"paradox_type\": 5}, \"s1_knowledge\": {\"knowledge_gaps\": [\"g\"]}, \"user_input\": \"t\"}"
        :> <<"f", "b", "f", "e", "7", "a", "d", "a", "5", "a", "6", "7">>)
    @@
    (
    ("{\"phase_1\": {}, \"phase_2\": {\"branches\": [{\"name\": \"b\"}, \"x\"]}, \"phase_3\": {\"paradox_type\": 5}, \"s1_knowledge\": {}, \"user_input\": \"s\"}"
        :> <<"e", "3", "6", "5", "a", "f", "1", "0", "d", "d", "1", "d">>)
    @@
    ("{\"phase_1\": {}, \"phase_2\": {\"branches\": [{\"name\": \"b\"}, \"x\"]}, \"phase_3\": {\"paradox_type\": 5}, \"s1_knowledge\": {}, \"user_input\": \"t\"}"
        :> <<"9", "0", "8", "d", "d", "9", "d", "6", "3", "6", "5", "4">>)
    )
    )
    )
    @@
    (
    (
    ("{\"phase_1\": {}, \"phase_2\": {\"branches\": [{\"name\": \"b\"}, \"x\"]}, \"phase_3\": {\"paradox_type\": null}, \"s1_knowledge\": {\"knowledge_gaps\": [\"g\"]}, \"user_input\": \"s\"}"
        :> <<"e", "8", "6", "b", "a", "2", "c", "2", "6", "e", "f", "2">>)
    @@
    ("{\"phase_1\": {}, \"phase_2\": {\"branches\": [{\"name\": \"b\"}, \"x\"]}, \"phase_3\": {\"paradox_type\": null}, \"s1_knowledge\": {\"knowledge_gaps\": [\"g\"]}, \"user_input\": \"t\"}"
        :> <<"7", "8", "d", "7", "2", "b", "4", "1", "d", "0", "e", "7">>)
    )
    @@
    (
    ("{\"phase_1\": {}, \"phase_2\": {\"branches\": [{\"name\": \"b\"}, \"x\"]}, \"phase_3\": {\"paradox_type\": null}, \"s1_knowledge\": {}, \"user_input\": \"s\"}"
        :> <<"e", "e", "2", "f", "0", "a", "b", "2", "d", "6", "d", "0">>)
    @@
    (
    ("{\"phase_1\": {}, \"phase_2\": {\"branches\": [{\"name\": \"b\"}, \"x\"]}, \"phase_3\": {\"paradox_type\": null}, \"s1_knowledge\": {}, \"user_input\": \"t\"}"
        :> <<"d", "9", "f", "1", "1", "f", "6", "d", "4", "d", "f", "4">>)
    @@
    ("{\"phase_1\": {}, \"phase_2\": {\"branches\": [{\"name\": \"b\"}, \"x\"]}, \"phase_3\": {}, \"s1_knowledge\": {\"knowledge_gaps\": [\"g\"]}, \"user_input\": \"s\"}"
        :> <<"5", "f", "b", "c", "a", "1", "a", "e", "f", "b", "f", "7">>)
    )
    )
    )
    )
    @@
    (
    (
    (
    ("{\"phase_1\": {}, \"phase_2\": {\"branches\": [{\"name\": \"b\"}, \"x\"]}, \"phase_3\": {}, \"s1_knowledge\": {\"knowledge_gaps\": [\"g\"]}, \"user_input\": \"t\"}"
        :> <<"1", "b", "f", "a", "7", "e", "4", "f", "8", "7", "9", "7">>)
    @@
    ("{\"phase_1\": {}, \"phase_2\": {\"branches\": [{\"name\": \"b\"}, \"x\"]}, \"phase_3\": {}, \"s1_knowledge\": {}, \"user_input\": \"s\"}"
        :> <<"3", "a", "b", "6", "c", "c", "c", "0", "3", "6", "0", "e">>)
    )
    @@
    (
    ("{\"phase_1\": {}, \"phase_2\": {\"branches\": [{\"name\": \"b\"}, \"x\"]}, \"phase_3\": {}, \"s1_knowledge\": {}, \"user_input\": \"t\"}"
        :> <<"1", "e", "6", "4", "1", "e", "f", "1", "a", "6", "3", "e">>)
    @@
    (
    ("{\"phase_1\": {}, \"phase_2\": {\"branches\": [{\"name\": null, \"result\": 5}, \"x\", \"x\"]}, \"phase_3\": {}, \"s1_knowledge\": {}, \"user_input\": \"s\"}"
        :> <<"7", "7", "f", "2", "2", "3", "5", "d", "1", "7", "e", "2">>)
    @@
    ("{\"phase_1\": {}, \"phase_2\": {\"branches\": [{\"name\": null, \"result\": 5}, \"x\", [\"l\"]]}, \"phase_3\": {}, \"s1_knowledge\": {}, \"user_input\": \"s\"}"
        :> <<"e", "2", "f", "1", "6", "3", "7", "3", "9", "a", "e", "1">>)
    )
    )
    )
    @@
    (
    (
    ("{\"phase_1\": {}, \"phase_2\": {\"branches\": [{\"name\": null, \"result\": 5}, \"x\", null]}, \"phase_3\": {}, \"s1_knowledge\": {}, \"user_input\": \"s\"}"
        :> <<"5", "3", "2", "a", "b", "e", "8", "c", "d", "d", "b", "1">>)
    @@
    ("{\"phase_1\": {}, \"phase_2\": {\"branches\": [{\"name\": null, \"result\": 5}, \"x\", {\"goal_impact\": \" \", \"name\": \" a \", \"result\": \"\"}]}, \"phase_3\": {}, \"s1_knowledge\": {}, \"user_input\": \"s\"}"
        :> <<"8", "b", "a", "b", "a", "c", "4", "0", "9", "a", "4", "a">>)
    )
    @@
    (
    ("{\"phase_1\": {}, \"phase_2\": {\"branches\": [{\"name\": null, \"result\": 5}, \"x\", {\"name\": null, \"result\": 5}]}, \"phase_3\": {}, \"s1_knowledge\": {}, \"user_input\": \"s\"}"
        :> <<"7", "2", "9", "d", "8", "7", "9", "9", "6", "d", "d", "0">>)
    @@
    (
    ("{\"phase_1\": {}, \"phase_2\": {\"branches\": [{\"name\": null, \"result\": 5}, \"x\", {}]}, \"phase_3\": {}, \"s1_knowledge\": {}, \"user_input\": \"s\"}"
        :> <<"9", "d", "5", "a", "1", "8", "c", "3", "7", "c", "3", "6">>)
    @@
    ("{\"phase_1\": {}, \"phase_2\": {\"branches\": [{\"name\": null, \"result\": 5}, \"x\"]}, \"phase_3\": {}, \"s1_knowledge\": {}, \"user_input\": \"s\"}"
        :> <<"e", "4", "1", "4", "9", "6", "2", "2", "f", "5", "3", "9">>)
    )
    )
    )
    )
    )
    )
    )
    )
    )
    @@
    (
    (
    (
    (
    (
    (
    (
    (
    ("{\"phase_1\": {}, \"phase_2\": {\"branches\": [{\"name\": null, \"result\": 5}, [\"l\"], \"x\"]}, \"phase_3\": {}, \"s1_knowledge\": {}, \"user_input\": \"s\"}"
        :> <<"7", "c", "f", "6", "f", "4", "0", "3", "6", "f", "1", "f">>)
    @@
    ("{\"phase_1\": {}, \"phase_2\": {\"branches\": [{\"name\": null, \"result\": 5}, [\"l\"], [\"l\"]]}, \"phase_3\": {}, \"s1_knowledge\": {}, \"user_input\": \"s\"}"
        :> <<"7", "f", "7", "8", "b", "d", "e", "4", "2", "3", "a", "d">>)
    )
    @@
    (
    ("{\"phase_1\": {}, \"phase_2\": {\"branches\": [{\"name\": null, \"result\": 5}, [\"l\"], null]}, \"phase_3\": {}, \"s1_knowledge\": {}, \"user_input\": \"s\"}"
        :> <<"b", "1", "6", "d", "c", "c", "7", "5", "6", "1", "3", "b">>)
    @@
    ("{\"phase_1\": {}, \"phase_2\": {\"branches\": [{\"name\": null, \"result\": 5}, [\"l\"], {\"goal_impact\": \" \", \"name\": \" a \", \"result\": \"\"}]}, \"phase_3\": {}, \"s1_knowledge\": {}, \"user_input\": \"s\"}"
        :> <<"8", "6", "2", "9", "a", "7", "e", "7", "e", "c", "9", "c">>)
    )
    )
    @@
    (
    (
    ("{\"phase_1\": {}, \"phase_2\": {\"branches\": [{\"name\": null, \"result\": 5}, [\"l\"], {\"name\": null, \"result\": 5}]}, \"phase_3\": {}, \"s1_knowledge\": {}, \"user_input\": \"s\"}"
        :> <<"d", "f", "8", "b", "f", "8", "7", "b", "d", "9", "d", "6">>)
    @@
    ("{\"phase_1\": {}, \"phase_2\": {\"branches\": [{\"name\": null, \"result\": 5}, [\"l\"], {}]}, \"phase_3\": {}, \"s1_knowledge\": {}, \"user_input\": \"s\"}"
        :> <<"6", "9", "c", "d", "1", "e", "9", "b", "c", "e", "a", "1">>)
    )
    @@
    (
    ("{\"phase_1\": {}, \"phase_2\": {\"branches\": [{\"name\": null, \"result\": 5}, [\"l\"]]}, \"phase_3\": {}, \"s1_knowledge\": {}, \"user_input\": \"s\"}"
        :> <<"d", "2", "f", "0", "1", "0", "6", "5", "8", "e", "0", "9">>)
    @@
    (
    ("{\"phase_1\": {}, \"phase_2\": {\"branches\": [{\"name\": null, \"result\": 5}, null, \"x\"]}, \"phase_3\": {}, \"s1_knowledge\": {}, \"user_input\": \"s\"}"
        :> <<"d", "3", "b", "1", "c", "5", "7", "0", "2", "5", "e", "4">>)
    @@
    ("{\"phase_1\": {}, \"phase_2\": {\"branches\": [{\"name\": null, \"result\": 5}, null, [\"l\"]]}, \"phase_3\": {}, \"s1_knowledge\": {}, \"user_input\": \"s\"}"
        :> <<"9", "d", "4", "d", "d", "7", "1", "d", "b", "3", "9", "0">>)
    )
    )
    )
    )
    @@
    (
    (
    (
    ("{\"phase_1\": {}, \"phase_2\": {\"branches\": [{\"name\": null, \"result\": 5}, null, null]}, \"phase_3\": {}, \"s1_knowledge\": {}, \"user_input\": \"s\"}"
        :> <<"5", "0", "9", "1", "d", "b", "d", "3", "6", "6", "a", "f">>)
    @@
    ("{\"phase_1\": {}, \"phase_2\": {\"branches\": [{\"name\": null, \"result\": 5}, null, {\"goal_impact\": \" \", \"name\": \" a \", \"result\": \"\"}]}, \"phase_3\": {}, \"s1_knowledge\": {}, \"user_input\": \"s\"}"
        :> <<"c", "9", "7", "c", "8", "b", "f", "9", "3", "6", "f", "d">>)
    )
    @@
    (
    ("{\"phase_1\": {}, \"phase_2\": {\"branches\": [{\"name\": null, \"result\": 5}, null, {\"name\": null, \"result\": 5}]}, \"phase_3\": {}, \"s1_knowledge\": {}, \"user_input\": \"s\"}"
        :> <<"7", "b", "e", "5", "4", "a", "2", "2", "9", "f", "1", "4">>)
    @@
    (
    ("{\"phase_1\": {}, \"phase_2\": {\"branches\": [{\"name\": null, \"result\": 5}, null, {}]}, \"phase_3\": {}, \"s1_knowledge\": {}, \"user_input\": \"s\"}"
        :> <<"c", "c", "7", "0", "7", "4", "0", "4", "1", "8", "b", "f">>)
    @@
    ("{\"phase_1\": {}, \"phase_2\": {\"branches\": [{\"name\": null, \"result\": 5}, null]}, \"phase_3\": {}, \"s1_knowledge\": {}, \"user_input\": \"s\"}"
        :> <<"1", "b", "0", "c", "f", "7", "0", "b", "a", "3", "e", "8">>)
    )
    )
    )
    @@
    (
    (
    ("{\"phase_1\": {}, \"phase_2\": {\"branches\": [{\"name\": null, \"result\": 5}, {\"goal_impact\": \" \", \"name\": \" a \", \"result\": \"\"}, \"x\"]}, \"phase_3\": {}, \"s1_knowledge\": {}, \"user_input\": \"s\"}"
        :> <<"a", "9", "2", "6", "c", "1", "5", "e", "2", "2", "e", "d">>)
    @@
    ("{\"phase_1\": {}, \"phase_2\": {\"branches\": [{\"name\": null, \"result\": 5}, {\"goal_impact\": \" \", \"name\": \" a \", \"result\": \"\"}, [\"l\"]]}, \"phase_3\": {}, \"s1_knowledge\": {}, \"user_input\": \"s\"}"
        :> <<"c", "8", "3", "6", "7", "f", "7", "3", "a", "f", "a", "3">>)
    )
    @@
    (
    ("{\"phase_1\": {}, \"phase_2\": {\"branches\": [{\"name\": null, \"result\": 5}, {\"goal_impact\": \" \", \"name\": \" a \", \"result\": \"\"}, null]}, \"phase_3\": {}, \"s1_knowledge\": {}, \"user_input\": \"s\"}"
        :> <<"0", "c", "2", "4", "3", "d", "0", "a", "9", "a", "5", "2">>)
    @@
    (
    ("{\"phase_1\": {}, \"phase_2\": {\"branches\": [{\"name\": null, \"result\": 5}, {\"goal_impact\": \" \", \"name\": \" a \", \"result\": \"\"}, {\"goal_impact\": \" \", \"name\": \" a \", \"result\": \"\"}]}, \"phase_3\": {}, \"s1_knowledge\": {}, \"user_input\": \"s\"}"
        :> <<"4", "f", "4", "6", "f", "4", "d", "2", "4", "2", "e", "d">>)
    @@
    ("{\"phase_1\": {}, \"phase_2\": {\"branches\": [{\"name\": null, \"result\": 5}, {\"goal_impact\": \" \", \"name\": \" a \", \"result\": \"\"}, {\"name\": null, \"result\": 5}]}, \"phase_3\": {}, \"s1_knowledge\": {}, \"user_input\": \"s\"}"
        :> <<"a", "4", "3", "4", "a", "6", "0", "6", "a", "0", "0", "a">>)
    )
    )
    )
    )
    )
    @@
    (
    (
    (
    (
    ("{\"phase_1\": {}, \"phase_2\": {\"branches\": [{\"name\": null, \"result\": 5}, {\"goal_impact\": \" \", \"name\": \" a \", \"result\": \"\"}, {}]}, \"phase_3\": {}, \"s1_knowledge\": {}, \"user_input\": \"s\"}"
        :> <<"d", "f", "c", "2", "d", "e", "3", "5", "c", "9", "d", "7">>)
    @@
    ("{\"phase_1\": {}, \"phase_2\": {\"branches\": [{\"name\": null, \"result\": 5}, {\"goal_impact\": \" \", \"name\": \" a \", \"result\": \"\"}]}, \"phase_3\": {}, \"s1_knowledge\": {}, \"user_input\": \"s\"}"
        :> <<"1", "2", "4", "8", "f", "b", "d", "8", "d", "7", "e", "6">>)
    )
    @@
    (
    ("{\"phase_1\": {}, \"phase_2\": {\"branches\": [{\"name\": null, \"result\": 5}, {\"name\": null, \"result\": 5}, \"x\"]}, \"phase_3\": {}, \"s1_knowledge\": {}, \"user_input\": \"s\"}"
        :> <<"1", "d", "e", "c", "3", "d", "7", "6", "e", "0", "d", "d">>)
    @@
    ("{\"phase_1\": {}, \"phase_2\": {\"branches\": [{\"name\": null, \"result\": 5}, {\"name\": null, \"result\": 5}, [\"l\"]]}, \"phase_3\": {}, \"s1_knowledge\": {}, \"user_input\": \"s\"}"
        :> <<"b", "5", "5", "2", "8", "b", "6", "f", "f", "1", "f", "2">>)
    )
    )
    @@
    (
    (
    ("{\"phase_1\": {}, \"phase_2\": {\"branches\": [{\"name\": null, \"result\": 5}, {\"name\": null, \"result\": 5}, null]}, \"phase_3\": {}, \"s1_knowledge\": {}, \"user_input\": \"s\"}"
        :> <<"0", "9", "5", "e", "e", "f", "f", "8", "e", "3", "a", "c">>)
    @@
    ("{\"phase_1\": {}, \"phase_2\": {\"branches\": [{\"name\": null, \"result\": 5}, {\"name\": null, \"result\": 5}, {\"goal_impact\": \" \", \"name\": \" a \", \"result\": \"\"}]}, \"phase_3\": {}, \"s1_knowledge\": {}, \"user_input\": \"s\"}"
        :> <<"4", "f", "a", "7", "9", "0", "3", "9", "e", "f", "f", "0">>)
    )
    @@
    (
    ("{\"phase_1\": {}, \"phase_2\": {\"branches\": [{\"name\": null, \"result\": 5}, {\"name\": null, \"result\": 5}, {\"name\": null, \"result\": 5}]}, \"phase_3\": {}, \"s1_knowledge\": {}, \"user_input\": \"s\"}"
        :> <<"f", "f", "e", "6", "2", "7", "f", "1", "7", "6", "b", "a">>)
    @@
    (
    ("{\"phase_1\": {}, \"phase_2\": {\"branches\": [{\"name\": null, \"result\": 5}, {\"name\": null, \"result\": 5}, {}]}, \"phase_3\": {}, \"s1_knowledge\": {}, \"user_input\": \"s\"}"
        :> <<"8", "b", "f", "1", "2", "6", "5", "e", "b", "5", "e", "c">>)
    @@
    ("{\"phase_1\": {}, \"phase_2\": {\"branches\": [{\"name\": null, \"result\": 5}, {\"name\": null, \"result\": 5}]}, \"phase_3\": {}, \"s1_knowledge\": {}, \"user_input\": \"s\"}"
        :> <<"9", "c", "3", "7", "a", "a", "1", "4", "d", "6", "3", "2">>)
    )
    )
    )
    )
    @@
    (
    (
    (
    ("{\"phase_1\": {}, \"phase_2\": {\"branches\": [{\"name\": null, \"result\": 5}, {}, \"x\"]}, \"phase_3\": {}, \"s1_knowledge\": {}, \"user_input\": \"s\"}"
        :> <<"c", "6", "f", "b", "4", "a", "6", "5", "3", "1", "1", "0">>)
    @@
    ("{\"phase_1\": {}, \"phase_2\": {\"branches\": [{\"name\": null, \"result\": 5}, {}, [\"l\"]]}, \"phase_3\": {}, \"s1_knowledge\": {}, \"user_input\": \"s\"}"
        :> <<"1", "0", "e", "b", "0", "9", "d", "c", "9", "7", "1", "9">>)
    )
    @@
    (
    ("{\"phase_1\": {}, \"phase_2\": {\"branches\": [{\"name\": null, \"result\": 5}, {}, null]}, \"phase_3\": {}, \"s1_knowledge\": {}, \"user_input\": \"s\"}"
        :> <<"1", "3", "c", "8", "f", "f", "e", "5", "0", "2", "a", "f">>)
    @@
    (
    ("{\"phase_1\": {}, \"phase_2\": {\"branches\": [{\"name\": null, \"result\": 5}, {}, {\"goal_impact\": \" \", \"name\": \" a \", \"result\": \"\"}]}, \"phase_3\": {}, \"s1_knowledge\": {}, \"user_input\": \"s\"}"
        :> <<"9", "b", "d", "a", "e", "0", "4", "1", "f", "4", "2", "2">>)
    @@
    ("{\"phase_1\": {}, \"phase_2\": {\"branches\": [{\"name\": null, \"result\": 5}, {}, {\"name\": null, \"result\": 5}]}, \"phase_3\": {}, \"s1_knowledge\": {}, \"user_input\": \"s\"}"
        :> <<"5", "f", "9", "2", "4", "9", "4", "f", "2", "0", "9", "a">>)
    )
    )
    )
    @@
    (
    (
    ("{\"phase_1\": {}, \"phase_2\": {\"branches\": [{\"name\": null, \"result\": 5}, {}, {}]}, \"phase_3\": {}, \"s1_knowledge\": {}, \"user_input\": \"s\"}"
        :> <<"0", "1", "6", "e", "f", "f", "5", "2", "0", "0", "f", "6">>)
    @@
    ("{\"phase_1\": {}, \"phase_2\": {\"branches\": [{\"name\": null, \"result\": 5}, {}]}, \"phase_3\": {}, \"s1_knowledge\": {}, \"user_input\": \"s\"}"
        :> <<"c", "a", "0", "5", "c", "d", "d", "c", "e", "f", "6", "9">>)
    )
    @@
    (
    ("{\"phase_1\": {}, \"phase_2\": {\"branches\": [{\"name\": null, \"result\": 5}]}, \"phase_3\": {}, \"s1_knowledge\": {}, \"user_input\": \"s\"}"
        :> <<"6", "0", "5", "c", "d", "b", "0", "1", "d", "b", "5", "c">>)
    @@
    (
    ("{\"phase_1\": {}, \"phase_2\": {\"branches\": [{}, \"x\", \"x\"]}, \"phase_3\": {}, \"s1_knowledge\": {}, \"user_input\": \"s\"}"
        :> <<"8", "9", "5", "2", "0", "e", "f", "d", "4", "d", "e", "5">>)
    @@
    ("{\"phase_1\": {}, \"phase_2\": {\"branches\": [{}, \"x\", [\"l\"]]}, \"phase_3\": {}, \"s1_knowledge\": {}, \"user_input\": \"s\"}"
        :> <<"d", "2", "8", "5", "1", "8", "7", "b", "f", "7", "7", "3">>)
    )
    )
    )
    )
    )
    )
    @@
    (
    (
    (
    (
    (
    ("{\"phase_1\": {}, \"phase_2\": {\"branches\": [{}, \"x\", null]}, \"phase_3\": {}, \"s1_knowledge\": {}, \"user_input\": \"s\"}"
        :> <<"d", "9", "3", "d", "9", "c", "e", "5", "8", "4", "8", "f">>)
    @@
    ("{\"phase_1\": {}, \"phase_2\": {\"branches\": [{}, \"x\", {\"goal_impact\": \" \", \"name\": \" a \", \"result\": \"\"}]}, \"phase_3\": {}, \"s1_knowledge\": {}, \"user_input\": \"s\"}"
        :> <<"9", "d", "0", "d", "d", "9", "2", "8", "9", "8", "0", "a">>)
    )
    @@
    (
    ("{\"phase_1\": {}, \"phase_2\": {\"branches\": [{}, \"x\", {\"name\": null, \"result\": 5}]}, \"phase_3\": {}, \"s1_knowledge\": {}, \"user_input\": \"s\"}"
        :> <<"f", "4", "2", "5", "5", "e", "9", "9", "0", "c", "1", "e">>)
    @@
    ("{\"phase_1\": {}, \"phase_2\": {\"branches\": [{}, \"x\", {}]}, \"phase_3\": {}, \"s1_knowledge\": {}, \"user_input\": \"s\"}"
        :> <<"e", "0", "3", "9", "2", "5", "6", "0", "3", "c", "a", "2">>)
    )
    )
    @@
    (
    (
    ("{\"phase_1\": {}, \"phase_2\": {\"branches\": [{}, \"x\"]}, \"phase_3\": {}, \"s1_knowledge\": {}, \"user_input\": \"s\"}"
        :> <<"7", "3", "c", "9", "e", "d", "1", "4", "3", "8", "8", "8">>)
    @@
    ("{\"phase_1\": {}, \"phase_2\": {\"branches\": [{}, [\"l\"], \"x\"]}, \"phase_3\": {}, \"s1_knowledge\": {}, \"user_input\": \"s\"}"
        :> <<"a", "0", "2", "0", "8", "c", "b", "0", "5", "3", "9", "9">>)
    )
    @@
    (
    ("{\"phase_1\": {}, \"phase_2\": {\"branches\": [{}, [\"l\"], [\"l\"]]}, \"phase_3\": {}, \"s1_knowledge\": {}, \"user_input\": \"s\"}"
        :> <<"a", "5", "f", "5", "8", "0", "8", "d", "6", "5", "1", "e">>)
    @@
    (
    ("{\"phase_1\": {}, \"phase_2\": {\"branches\": [{}, [\"l\"], null]}, \"phase_3\": {}, \"s1_knowledge\": {}, \"user_input\": \"s\"}"
        :> <<"9", "e", "a", "9", "c", "2", "0", "d", "8", "7", "d", "1">>)
    @@
    ("{\"phase_1\": {}, \"phase_2\": {\"branches\": [{}, [\"l\"], {\"goal_impact\": \" \", \"name\": \" a \", \"result\": \"\"}]}, \"phase_3\": {}, \"s1_knowledge\": {}, \"user_input\": \"s\"}"
        :> <<"8", "c", "2", "9", "c", "d", "f", "a", "4", "7", "4", "9">>)
    )
    )
    )
    )
    @@
    (
    (
    (
    ("{\"phase_1\": {}, \"phase_2\": {\"branches\": [{}, [\"l\"], {\"name\": null, \"result\": 5}]}, \"phase_3\": {}, \"s1_knowledge\": {}, \"user_input\": \"s\"}"
        :> <<"8", "c", "a", "5", "c", "2", "d", "d", "0", "9", "a", "9">>)
    @@
    ("{\"phase_1\": {}, \"phase_2\": {\"branches\": [{}, [\"l\"], {}]}, \"phase_3\": {}, \"s1_knowledge\": {}, \"user_input\": \"s\"}"
        :> <<"b", "e", "7", "d", "f", "5", "f", "7", "0", "f", "5", "8">>)
    )
    @@
    (
    ("{\"phase_1\": {}, \"phase_2\": {\"branches\": [{}, [\"l\"]]}, \"phase_3\": {}, \"s1_knowledge\": {}, \"user_input\": \"s\"}"
        :> <<"f", "6", "b", "3", "b", "9", "d", "9", "7", "f", "8", "0">>)
    @@
    (
    ("{\"phase_1\": {}, \"phase_2\": {\"branches\": [{}, null, \"x\"]}, \"phase_3\": {}, \"s1_knowledge\": {}, \"user_input\": \"s\"}"
        :> <<"c", "a", "d", "4", "e", "1", "7", "d", "9", "3", "6", "1">>)
    @@
    ("{\"phase_1\": {}, \"phase_2\": {\"branches\": [{}, null, [\"l\"]]}, \"phase_3\": {}, \"s1_knowledge\": {}, \"user_input\": \"s\"}"
        :> <<"a", "4", "d", "c", "5", "3", "9", "0", "d", "3", "6", "e">>)
    )
    )
    )
    @@
    (
    (
    ("{\"phase_1\": {}, \"phase_2\": {\"branches\": [{}, null, null]}, \"phase_3\": {}, \"s1_knowledge\": {}, \"user_input\": \"s\"}"
        :> <<"c", "3", "4", "a", "6", "f", "9", "5", "a", "9", "b", "3">>)
    @@
    ("{\"phase_1\": {}, \"phase_2\": {\"branches\": [{}, null, {\"goal_impact\": \" \", \"name\": \" a \", \"result\": \"\"}]}, \"phase_3\": {}, \"s1_knowledge\": {}, \"user_input\": \"s\"}"
        :> <<"6", "7", "1", "9", "4", "5", "1", "8", "a", "f", "7", "5">>)
    )
    @@
    (
    ("{\"phase_1\": {}, \"phase_2\": {\"branches\": [{}, null, {\"name\": null, \"result\": 5}]}, \"phase_3\": {}, \"s1_knowledge\": {}, \"user_input\": \"s\"}"
        :> <<"a", "5", "b", "f", "3", "3", "f", "b", "c", "e", "4", "5">>)
    @@
    (
    ("{\"phase_1\": {}, \"phase_2\": {\"branches\": [{}, null, {}]}, \"phase_3\": {}, \"s1_knowledge\": {}, \"user_input\": \"s\"}"
        :> <<"b", "8", "4", "d", "a", "a", "6", "1", "e", "1", "8", "2">>)
    @@
    ("{\"phase_1\": {}, \"phase_2\": {\"branches\": [{}, null]}, \"phase_3\": {}, \"s1_knowledge\": {}, \"user_input\": \"s\"}"
        :> <<"d", "d", "6", "c", "4", "2", "3", "f", "7", "4", "f", "9">>)
    )
    )
    )
    )
    )
    @@
    (
    (
    (
    (
    ("{\"phase_1\": {}, \"phase_2\": {\"branches\": [{}, {\"goal_impact\": \" \", \"name\": \" a \", \"result\": \"\"}, \"x\"]}, \"phase_3\": {}, \"s1_knowledge\": {}, \"user_input\": \"s\"}"
        :> <<"7", "7", "4", "a", "8", "2", "f", "1", "e", "c", "a", "f">>)
    @@
    ("{\"phase_1\": {}, \"phase_2\": {\"branches\": [{}, {\"goal_impact\": \" \", \"name\": \" a \", \"result\": \"\"}, [\"l\"]]}, \"phase_3\": {}, \"s1_knowledge\": {}, \"user_input\": \"s\"}"
        :> <<"6", "a", "0", "e", "6", "9", "6", "c", "5", "b", "f", "2">>)
    )
    @@
    (
    ("{\"phase_1\": {}, \"phase_2\": {\"branches\": [{}, {\"goal_impact\": \" \", \"name\": \" a \", \"result\": \"\"}, null]}, \"phase_3\": {}, \"s1_knowledge\": {}, \"user_input\": \"s\"}"
        :> <<"c", "5", "3", "b", "7", "c", "2", "6", "7", "2", "6", "8">>)
    @@
    ("{\"phase_1\": {}, \"phase_2\": {\"branches\": [{}, {\"goal_impact\": \" \", \"name\": \" a \", \"result\": \"\"}, {\"goal_impact\": \" \", \"name\": \" a \", \"result\": \"\"}]}, \"phase_3\": {}, \"s1_knowledge\": {}, \"user_input\": \"s\"}"
        :> <<"3", "d", "d", "f", "2", "e", "5", "0", "7", "1", "5", "e">>)
    )
    )
    @@
    (
    (
    ("{\"phase_1\": {}, \"phase_2\": {\"branches\": [{}, {\"goal_impact\": \" \", \"name\": \" a \", \"result\": \"\"}, {\"name\": null, \"result\": 5}]}, \"phase_3\": {}, \"s1_knowledge\": {}, \"user_input\": \"s\"}"
        :> <<"1", "5", "a", "0", "b", "3", "6", "7", "f", "4", "b", "f">>)
    @@
    ("{\"phase_1\": {}, \"phase_2\": {\"branches\": [{}, {\"goal_impact\": \" \", \"name\": \" a \", \"result\": \"\"}, {}]}, \"phase_3\": {}, \"s1_knowledge\": {}, \"user_input\": \"s\"}"
        :> <<"9", "2", "b", "9", "c", "7", "6", "e", "d", "6", "d", "8">>)
    )
    @@
    (
    ("{\"phase_1\": {}, \"phase_2\": {\"branches\": [{}, {\"goal_impact\": \" \", \"name\": \" a \", \"result\": \"\"}]}, \"phase_3\": {}, \"s1_knowledge\": {}, \"user_input\": \"s\"}"
        :> <<"7", "c", "b", "e", "c", "3", "1", "3", "6", "d", "d", "8">>)
    @@
    (
    ("{\"phase_1\": {}, \"phase_2\": {\"branches\": [{}, {\"name\": null, \"result\": 5}, \"x\"]}, \"phase_3\": {}, \"s1_knowledge\": {}, \"user_input\": \"s\"}"
        :> <<"8", "3", "7", "3", "f", "5", "b", "d", "c", "5", "4", "a">>)
    @@
    ("{\"phase_1\": {}, \"phase_2\": {\"branches\": [{}, {\"name\": null, \"result\": 5}, [\"l\"]]}, \"phase_3\": {}, \"s1_knowledge\": {}, \"user_input\": \"s\"}"
        :> <<"c", "7", "1", "d", "3", "9", "2", "a", "8", "a", "8", "4">>)
    )
    )
    )
    )
    @@
    (
    (
    (
    ("{\"phase_1\": {}, \"phase_2\": {\"branches\": [{}, {\"name\": null, \"result\": 5}, null]}, \"phase_3\": {}, \"s1_knowledge\": {}, \"user_input\": \"s\"}"
        :> <<"9", "5", "0", "5", "9", "1", "8", "c", "5", "6", "3", "b">>)
    @@
    ("{\"phase_1\": {}, \"phase_2\": {\"branches\": [{}, {\"name\": null, \"result\": 5}, {\"goal_impact\": \" \", \"name\": \" a \", \"result\": \"\"}]}, \"phase_3\": {}, \"s1_knowledge\": {}, \"user_input\": \"s\"}"
        :> <<"3", "2", "6", "d", "7", "e", "e", "4", "5", "1", "d", "a">>)
    )
    @@
    (
    ("{\"phase_1\": {}, \"phase_2\": {\"branches\": [{}, {\"name\": null, \"result\": 5}, {\"name\": null, \"result\": 5}]}, \"phase_3\": {}, \"s1_knowledge\": {}, \"user_input\": \"s\"}"
        :> <<"d", "0", "d", "6", "7", "e", "2", "2", "a", "c", "a", "e">>)
    @@
    (
    ("{\"phase_1\": {}, \"phase_2\": {\"branches\": [{}, {\"name\": null, \"result\": 5}, {}]}, \"phase_3\": {}, \"s1_knowledge\": {}, \"user_input\": \"s\"}"
        :> <<"a", "1", "5", "1", "d", "a", "c", "c", "2", "7", "3", "5">>)
    @@
    ("{\"phase_1\": {}, \"phase_2\": {\"branches\": [{}, {\"name\": null, \"result\": 5}]}, \"phase_3\": {}, \"s1_knowledge\": {}, \"user_input\": \"s\"}"
        :> <<"6", "f", "3", "6", "7", "2", "3", "d", "4", "f", "3", "a">>)
    )
    )
    )
    @@
    (
    (
    ("{\"phase_1\": {}, \"phase_2\": {\"branches\": [{}, {}, \"x\"]}, \"phase_3\": {}, \"s1_knowledge\": {}, \"user_input\": \"s\"}"
        :> <<"8", "9", "1", "7", "d", "c", "3", "f", "8", "8", "a", "d">>)
    @@
    ("{\"phase_1\": {}, \"phase_2\": {\"branches\": [{}, {}, [\"l\"]]}, \"phase_3\": {}, \"s1_knowledge\": {}, \"user_input\": \"s\"}"
        :> <<"3", "8", "f", "f", "9", "6", "2", "2", "2", "f", "2", "6">>)
    )
    @@
    (
    ("{\"phase_1\": {}, \"phase_2\": {\"branches\": [{}, {}, null]}, \"phase_3\": {}, \"s1_knowledge\": {}, \"user_input\": \"s\"}"
        :> <<"5", "6", "f", "8", "2", "2", "6", "d", "1", "a", "f", "7">>)
    @@
    (
    ("{\"phase_1\": {}, \"phase_2\": {\"branches\": [{}, {}, {\"goal_impact\": \" \", \"name\": \" a \", \"result\": \"\"}]}, \"phase_3\": {}, \"s1_knowledge\": {}, \"user_input\": \"s\"}"
        :> <<"a", "2", "f", "1", "a", "5", "1", "f", "e", "a", "3", "5">>)
    @@
    ("{\"phase_1\": {}, \"phase_2\": {\"branches\": [{}, {}, {\"name\": null, \"result\": 5}]}, \"phase_3\": {}, \"s1_knowledge\": {}, \"user_input\": \"s\"}"
        :> <<"d", "5", "a", "b", "3", "d", "f", "b", "4", "a", "5", "9">>)
    )
    )
    )
    )
    )
    )
    )
    @@
    (
    (
    (
    (
    (
    (
    ("{\"phase_1\": {}, \"phase_2\": {\"branches\": [{}, {}, {}]}, \"phase_3\": {}, \"s1_knowledge\": {}, \"user_input\": \"s\"}"
        :> <<"a", "9", "0", "1", "1", "c", "2", "0", "9", "c", "0", "d">>)
    @@
    ("{\"phase_1\": {}, \"phase_2\": {\"branches\": [{}, {}]}, \"phase_3\": {}, \"s1_knowledge\": {}, \"user_input\": \"s\"}"
        :> <<"7", "5", "b", "6", "2", "4", "6", "1", "8", "b", "4", "7">>)
    )
    @@
    (
    ("{\"phase_1\": {}, \"phase_2\": {\"branches\": [{}]}, \"phase_3\": {}, \"s1_knowledge\": {}, \"user_input\": \"s\"}"
        :> <<"8", "a", "1", "9", "6", "b", "4", "7", "1", "7", "f", "9">>)
    @@
    ("{\"phase_1\": {}, \"phase_2\": {\"branches\": null}, \"phase_3\": {}, \"s1_knowledge\": {}, \"user_input\": \"s\"}"
        :> <<"1", "8", "0", "b", "5", "4", "0", "a", "1", "f", "e", "e">>)
    )
    )
    @@
    (
    (
    ("{\"phase_1\": {}, \"phase_2\": {\"branches\": {}}, \"phase_3\": {}, \"s1_knowledge\": {}, \"user_input\": \"s\"}"
        :> <<"2", "8", "4", "e", "0", "4", "8", "b", "6", "9", "e", "c">>)
    @@
    ("{\"phase_1\": {}, \"phase_2\": {\"k\": 1}, \"phase_3\": {\"k\": 1}, \"s1_knowledge\": {\"k\": 1}, \"user_input\": \"s\"}"
        :> <<"b", "a", "1", "5", "3", "3", "a", "c", "8", "6", "2", "a">>)
    )
    @@
    (
    ("{\"phase_1\": {}, \"phase_2\": {\"k\": 1}, \"phase_3\": {\"k\": 1}, \"s1_knowledge\": {\"k\": 1}, \"user_input\": \"t\"}"
        :> <<"7", "3", "e", "a", "d", "5", "8", "8", "1", "4", "1", "7">>)
    @@
    (
    ("{\"phase_1\": {}, \"phase_2\": {\"k\": 1}, \"phase_3\": {\"k\": 1}, \"s1_knowledge\": {}, \"user_input\": \"s\"}"
        :> <<"b", "4", "c", "e", "2", "3", "f", "7", "5", "1", "a", "9">>)
    @@
    ("{\"phase_1\": {}, \"phase_2\": {\"k\": 1}, \"phase_3\": {\"k\": 1}, \"s1_knowledge\": {}, \"user_input\": \"t\"}"
        :> <<"c", "1", "5", "3", "1", "5", "6", "3", "e", "3", "c", "5">>)
    )
    )
    )
    )
    @@
    (
    (
    (
    ("{\"phase_1\": {}, \"phase_2\": {\"k\": 1}, \"phase_3\": {}, \"s1_knowledge\": {\"k\": 1}, \"user_input\": \"s\"}"
        :> <<"e", "d", "4", "5", "7", "6", "b", "d", "c", "1", "e", "c">>)
    @@
    ("{\"phase_1\": {}, \"phase_2\": {\"k\": 1}, \"phase_3\": {}, \"s1_knowledge\": {\"k\": 1}, \"user_input\": \"t\"}"
        :> <<"8", "4", "7", "3", "5", "1", "4", "2", "5", "4", "2", "9">>)
    )
    @@
    (
    ("{\"phase_1\": {}, \"phase_2\": {\"k\": 1}, \"phase_3\": {}, \"s1_knowledge\": {}, \"user_input\": \"s\"}"
        :> <<"9", "0", "4", "2", "9", "8", "1", "4", "a", "7", "0", "f">>)
    @@
    (
    ("{\"phase_1\": {}, \"phase_2\": {\"k\": 1}, \"phase_3\": {}, \"s1_knowledge\": {}, \"user_input\": \"t\"}"
        :> <<"0", "9", "b", "0", "1", "6", "8", "9", "7", "d", "9", "f">>)
    @@
    ("{\"phase_1\": {}, \"phase_2\": {}, \"phase_3\": {\"contradiction_path\": [\"a\", \" \", \"b\"], \"mitigation\": \"m\", \"paradox_type\": \"Falsidical\", \"reasoning\": \" r \"}, \"s1_knowledge\": {\"knowledge_gaps\": [\"g\"]}, \"user_input\": \"s\"}"
        :> <<"f", "a", "b", "b", "a", "e", "5", "c", "5", "b", "4", "a">>)
    )
    )
    )
    @@
    (
    (
    ("{\"phase_1\": {}, \"phase_2\": {}, \"phase_3\": {\"contradiction_path\": [\"a\", \" \", \"b\"], \"mitigation\": \"m\", \"paradox_type\": \"Falsidical\", \"reasoning\": \" r \"}, \"s1_knowledge\": {\"knowledge_gaps\": [\"g\"]}, \"user_input\": \"t\"}"
        :> <<"3", "8", "6", "9", "4", "2", "8", "5", "e", "d", "5", "a">>)
    @@
    ("{\"phase_1\": {}, \"phase_2\": {}, \"phase_3\": {\"contradiction_path\": [\"a\", \" \", \"b\"], \"mitigation\": \"m\", \"paradox_type\": \"Falsidical\", \"reasoning\": \" r \"}, \"s1_knowledge\": {}, \"user_input\": \"s\"}"
        :> <<"b", "8", "7", "b", "7", "4", "6", "4", "c", "7", "9", "8">>)
    )
    @@
    (
    ("{\"phase_1\": {}, \"phase_2\": {}, \"phase_3\": {\"contradiction_path\": [\"a\", \" \", \"b\"], \"mitigation\": \"m\", \"paradox_type\": \"Falsidical\", \"reasoning\": \" r \"}, \"s1_knowledge\": {}, \"user_input\": \"t\"}"
        :> <<"c", "7", "b", "3", "0", "6", "d", "1", "d", "b", "a", "0">>)
    @@
    (
    ("{\"phase_1\": {}, \"phase_2\": {}, \"phase_3\": {\"k\": 1}, \"s1_knowledge\": {\"k\": 1}, \"user_input\": \"s\"}"
        :> <<"7", "2", "d", "0", "b", "c", "9", "1", "d", "2", "3", "e">>)
    @@
    ("{\"phase_1\": {}, \"phase_2\": {}, \"phase_3\": {\"k\": 1}, \"s1_knowledge\": {\"k\": 1}, \"user_input\": \"t\"}"
        :> <<"6", "3", "5", "8", "8", "a", "e", "7", "7", "c", "c", "4">>)
    )
    )
    )
    )
    )
    @@
    (
    (
    (
    (
    ("{\"phase_1\": {}, \"phase_2\": {}, \"phase_3\": {\"k\": 1}, \"s1_knowledge\": {}, \"user_input\": \"s\"}"
        :> <<"4", "e", "3", "0", "3", "0", "9", "d", "f", "d", "b", "2">>)
    @@
    ("{\"phase_1\": {}, \"phase_2\": {}, \"phase_3\": {\"k\": 1}, \"s1_knowledge\": {}, \"user_input\": \"t\"}"
        :> <<"7", "3", "0", "c", "8", "3", "4", "5", "4", "f", "7", "8">>)
    )
    @@
    (
    ("{\"phase_1\": {}, \"phase_2\": {}, \"phase_3\": {\"n\": 10106858, \"paradox_type\": \"Antinomy\"}, \"s1_knowledge\": {\"knowledge_gaps\": [\"g\"]}, \"user_input\": \"s\"}"
        :> <<"0", "0", "b", "e", "1", "1", "8", "7", "2", "a", "c", "4">>)
    @@
    ("{\"phase_1\": {}, \"phase_2\": {}, \"phase_3\": {\"n\": 10106858, \"paradox_type\": \"Antinomy\"}, \"s1_knowledge\": {\"knowledge_gaps\": [\"g\"]}, \"user_input\": \"t\"}"
        :> <<"a", "e", "c", "8", "6", "6", "b", "b", "0", "b", "5", "8">>)
    )
    )
    @@
    (
    (
    ("{\"phase_1\": {}, \"phase_2\": {}, \"phase_3\": {\"n\": 10106858, \"paradox_type\": \"Antinomy\"}, \"s1_knowledge\": {}, \"user_input\": \"s\"}"
        :> <<"7", "5", "a", "5", "d", "c", "e", "c", "c", "7", "8", "b">>)
    @@
    ("{\"phase_1\": {}, \"phase_2\": {}, \"phase_3\": {\"n\": 10106858, \"paradox_type\": \"Antinomy\"}, \"s1_knowledge\": {}, \"user_input\": \"t\"}"
        :> <<"c", "8", "1", "7", "b", "a", "c", "7", "8", "6", "7", "0">>)
    )
    @@
    (
    ("{\"phase_1\": {}, \"phase_2\": {}, \"phase_3\": {\"n\": 13359876, \"paradox_type\": \"Antinomy\"}, \"s1_knowledge\": {\"knowledge_gaps\": [\"g\"]}, \"user_input\": \"s\"}"
        :> <<"7", "5", "4", "5", "5", "e", "5", "0", "b", "2", "9", "2">>)
    @@
    (
    ("{\"phase_1\": {}, \"phase_2\": {}, \"phase_3\": {\"n\": 13359876, \"paradox_type\": \"Antinomy\"}, \"s1_knowledge\": {\"knowledge_gaps\": [\"g\"]}, \"user_input\": \"t\"}"
        :> <<"8", "a", "7", "f", "b", "4", "9", "7", "0", "d", "4", "a">>)
    @@
    ("{\"phase_1\": {}, \"phase_2\": {}, \"phase_3\": {\"n\": 13359876, \"paradox_type\": \"Antinomy\"}, \"s1_knowledge\": {}, \"user_input\": \"s\"}"
        :> <<"7", "5", "a", "5", "d", "c", "e", "c", "c", "7", "8", "b">>)
    )
    )
    )
    )
    @@
    (
    (
    (
    ("{\"phase_1\": {}, \"phase_2\": {}, \"phase_3\": {\"n\": 13359876, \"paradox_type\": \"Antinomy\"}, \"s1_knowledge\": {}, \"user_input\": \"t\"}"
        :> <<"3", "0", "e", "2", "d", "1", "6", "3", "2", "6", "8", "f">>)
    @@
    ("{\"phase_1\": {}, \"phase_2\": {}, \"phase_3\": {\"paradox_type\": \" \"}, \"s1_knowledge\": {\"knowledge_gaps\": [\"g\"]}, \"user_input\": \"s\"}"
        :> <<"a", "e", "5", "c", "b", "2", "8", "2", "7", "8", "0", "1">>)
    )
    @@
    (
    ("{\"phase_1\": {}, \"phase_2\": {}, \"phase_3\": {\"paradox_type\": \" \"}, \"s1_knowledge\": {\"knowledge_gaps\": [\"g\"]}, \"user_input\": \"t\"}"
        :> <<"a", "e", "7", "a", "5", "f", "a", "2", "d", "0", "5", "4">>)
    @@
    (
    ("{\"phase_1\": {}, \"phase_2\": {}, \"phase_3\": {\"paradox_type\": \" \"}, \"s1_knowledge\": {}, \"user_input\": \"s\"}"
        :> <<"e", "f", "2", "d", "d", "2", "e", "d", "3", "c", "d", "b">>)
    @@
    ("{\"phase_1\": {}, \"phase_2\": {}, \"phase_3\": {\"paradox_type\": \" \"}, \"s1_knowledge\": {}, \"user_input\": \"t\"}"
        :> <<"8", "d", "d", "c", "8", "a", "5", "4", "1", "b", "b", "a">>)
    )
    )
    )
    @@
    (
    (
    ("{\"phase_1\": {}, \"phase_2\": {}, \"phase_3\": {\"paradox_type\": \" Veridical \"}, \"s1_knowledge\": {\"knowledge_gaps\": [\"g\"]}, \"user_input\": \"s\"}"
        :> <<"5", "1", "5", "c", "0", "3", "2", "b", "4", "6", "8", "8">>)
    @@
    ("{\"phase_1\": {}, \"phase_2\": {}, \"phase_3\": {\"paradox_type\": \" Veridical \"}, \"s1_knowledge\": {\"knowledge_gaps\": [\"g\"]}, \"user_input\": \"t\"}"
        :> <<"8", "3", "f", "1", "1", "a", "5", "d", "6", "7", "c", "c">>)
    )
    @@
    (
    ("{\"phase_1\": {}, \"phase_2\": {}, \"phase_3\": {\"paradox_type\": \" Veridical \"}, \"s1_knowledge\": {}, \"user_input\": \"s\"}"
        :> <<"2", "6", "8", "0", "d", "0", "0", "6", "e", "9", "b", "d">>)
    @@
    (
    ("{\"phase_1\": {}, \"phase_2\": {}, \"phase_3\": {\"paradox_type\": \" Veridical \"}, \"s1_knowledge\": {}, \"user_input\": \"t\"}"
        :> <<"7", "e", "d", "2", "5", "5", "a", "9", "b", "8", "d", "2">>)
    @@
    ("{\"phase_1\": {}, \"phase_2\": {}, \"phase_3\": {\"paradox_type\": \"Liar\"}, \"s1_knowledge\": {\"knowledge_gaps\": [\"g\"]}, \"user_input\": \"s\"}"
        :> <<"b", "e", "6", "6", "d", "7", "3", "5", "a", "2", "6", "5">>)
    )
    )
    )
    )
    )
    )
    @@
    (
    (
    (
    (
    (
    ("{\"phase_1\": {}, \"phase_2\": {}, \"phase_3\": {\"paradox_type\": \"Liar\"}, \"s1_knowledge\": {\"knowledge_gaps\": [\"g\"]}, \"user_input\": \"t\"}"
        :> <<"f", "f", "a", "1", "2", "4", "2", "c", "6", "b", "5", "5">>)
    @@
    ("{\"phase_1\": {}, \"phase_2\": {}, \"phase_3\": {\"paradox_type\": \"Liar\"}, \"s1_knowledge\": {}, \"user_input\": \"s\"}"
        :> <<"3", "7", "2", "4", "b", "b", "e", "3", "d", "f", "0", "a">>)
    )
    @@
    (
    ("{\"phase_1\": {}, \"phase_2\": {}, \"phase_3\": {\"paradox_type\": \"Liar\"}, \"s1_knowledge\": {}, \"user_input\": \"t\"}"
        :> <<"b", "d", "d", "c", "3", "8", "8", "2", "8", "4", "1", "2">>)
    @@
    ("{\"phase_1\": {}, \"phase_2\": {}, \"phase_3\": {\"paradox_type\": 5}, \"s1_knowledge\": {\"knowledge_gaps\": [\"g\"]}, \"user_input\": \"s\"}"
        :> <<"b", "4", "3", "6", "0", "2", "a", "b", "a", "e", "8", "1">>)
    )
    )
    @@
    (
    (
    ("{\"phase_1\": {}, \"phase_2\": {}, \"phase_3\": {\"paradox_type\": 5}, \"s1_knowledge\": {\"knowledge_gaps\": [\"g\"]}, \"user_input\": \"t\"}"
        :> <<"e", "6", "b", "1", "5", "0", "9", "0", "5", "8", "e", "d">>)
    @@
    ("{\"phase_1\": {}, \"phase_2\": {}, \"phase_3\": {\"paradox_type\": 5}, \"s1_knowledge\": {}, \"user_input\": \"s\"}"
        :> <<"0", "a", "7", "c", "9", "1", "3", "d", "f", "0", "4", "1">>)
    )
    @@
    (
    ("{\"phase_1\": {}, \"phase_2\": {}, \"phase_3\": {\"paradox_type\": 5}, \"s1_knowledge\": {}, \"user_input\": \"t\"}"
        :> <<"8", "6", "d", "c", "7", "f", "0", "1", "e", "f", "0", "7">>)
    @@
    (
    ("{\"phase_1\": {}, \"phase_2\": {}, \"phase_3\": {\"paradox_type\": null}, \"s1_knowledge\": {\"knowledge_gaps\": [\"g\"]}, \"user_input\": \"s\"}"
        :> <<"f", "1", "b", "5", "2", "c", "a", "4", "c", "1", "4", "e">>)
    @@
    ("{\"phase_1\": {}, \"phase_2\": {}, \"phase_3\": {\"paradox_type\": null}, \"s1_knowledge\": {\"knowledge_gaps\": [\"g\"]}, \"user_input\": \"t\"}"
        :> <<"b", "7", "f", "8", "6", "4", "6", "7", "b", "8", "b", "d">>)
    )
    )
    )
    )
    @@
    (
    (
    (
    ("{\"phase_1\": {}, \"phase_2\": {}, \"phase_3\": {\"paradox_type\": null}, \"s1_knowledge\": {}, \"user_input\": \"s\"}"
        :> <<"1", "2", "c", "c", "0", "d", "7", "6", "a", "6", "0", "6">>)
    @@
    ("{\"phase_1\": {}, \"phase_2\": {}, \"phase_3\": {\"paradox_type\": null}, \"s1_knowledge\": {}, \"user_input\": \"t\"}"
        :> <<"8", "7", "0", "7", "f", "8", "3", "8", "7", "a", "5", "d">>)
    )
    @@
    (
    ("{\"phase_1\": {}, \"phase_2\": {}, \"phase_3\": {}, \"s1_knowledge\": {\"k\": 1}, \"user_input\": \"s\"}"
        :> <<"2", "f", "1", "e", "2", "b", "7", "d", "c", "d", "3", "6">>)
    @@
    (
    ("{\"phase_1\": {}, \"phase_2\": {}, \"phase_3\": {}, \"s1_knowledge\": {\"k\": 1}, \"user_input\": \"t\"}"
        :> <<"8", "4", "8", "4", "c", "e", "a", "c", "0", "8", "7", "e">>)
    @@
    ("{\"phase_1\": {}, \"phase_2\": {}, \"phase_3\": {}, \"s1_knowledge\": {\"knowledge_gaps\": [\"g\"]}, \"user_input\": \"s\"}"
        :> <<"9", "2", "8", "1", "1", "a", "2", "5", "8", "3", "d", "1">>)
    )
    )
    )
    @@
    (
    (
    ("{\"phase_1\": {}, \"phase_2\": {}, \"phase_3\": {}, \"s1_knowledge\": {\"knowledge_gaps\": [\"g\"]}, \"user_input\": \"t\"}"
        :> <<"f", "7", "e", "c", "f", "6", "b", "a", "7", "6", "9", "0">>)
    @@
    ("{\"phase_1\": {}, \"phase_2\": {}, \"phase_3\": {}, \"s1_knowledge\": {}, \"user_input\": \"s\"}"
        :> <<"2", "2", "7", "2", "9", "3", "a", "d", "e", "1", "8", "8">>)
    )
    @@
    (
    ("{\"phase_1\": {}, \"phase_2\": {}, \"phase_3\": {}, \"s1_knowledge\": {}, \"user_input\": \"t\"}"
        :> <<"7", "b", "3", "4", "b", "7", "a", "d", "b", "f", "5", "c">>)
    @@
    (
    ("{\"user_input\": \"s\", \"s1_knowledge\": {\"k\": 1}, \"phase_1\": {\"k\": 1}, \"phase_2\": {\"k\": 1}, \"phase_3\": {\"k\": 1}}"
        :> <<"8", "5", "a", "6", "c", "8", "7", "a", "0", "1", "0", "4">>)
    @@
    ("{\"user_input\": \"s\", \"s1_knowledge\": {\"k\": 1}, \"phase_1\": {\"k\": 1}, \"phase_2\": {\"k\": 1}, \"phase_3\": {}}"
        :> <<"5", "6", "e", "0", "1", "0", "1", "d", "e", "b", "8", "a">>)
    )
    )
    )
    )
    )
    @@
    (
    (
    (
    (
    ("{\"user_input\": \"s\", \"s1_knowledge\": {\"k\": 1}, \"phase_1\": {\"k\": 1}, \"phase_2\": {}, \"phase_3\": {\"k\": 1}}"
        :> <<"7", "e", "d", "c", "c", "d", "2", "1", "3", "5", "5", "5">>)
    @@
    ("{\"user_input\": \"s\", \"s1_knowledge\": {\"k\": 1}, \"phase_1\": {\"k\": 1}, \"phase_2\": {}, \"phase_3\": {}}"
        :> <<"1", "e", "f", "6", "0", "0", "1", "d", "1", "c", "c", "f">>)
    )
    @@
    (
    ("{\"user_input\": \"s\", \"s1_knowledge\": {\"k\": 1}, \"phase_1\": {}, \"phase_2\": {\"k\": 1}, \"phase_3\": {\"k\": 1}}"
        :> <<"c", "7", "f", "2", "8", "2", "9", "8", "7", "4", "5", "3">>)
    @@
    (
    ("{\"user_input\": \"s\", \"s1_knowledge\": {\"k\": 1}, \"phase_1\": {}, \"phase_2\": {\"k\": 1}, \"phase_3\": {}}"
        :> <<"9", "7", "0", "7", "e", "b", "8", "c", "3", "9", "0", "d">>)
    @@
    ("{\"user_input\": \"s\", \"s1_knowledge\": {\"k\": 1}, \"phase_1\": {}, \"phase_2\": {}, \"phase_3\": {\"k\": 1}}"
        :> <<"6", "a", "3", "9", "a", "8", "9", "d", "5", "7", "a", "9">>)
    )
    )
    )
    @@
    (
    (
    ("{\"user_input\": \"s\", \"s1_knowledge\": {\"k\": 1}, \"phase_1\": {}, \"phase_2\": {}, \"phase_3\": {}}"
        :> <<"3", "0", "2", "9", "1", "3", "6", "e", "2", "e", "0", "3">>)
    @@
    ("{\"user_input\": \"s\", \"s1_knowledge\": {\"knowledge_gaps\": [\"g\"]}, \"phase_1\": {\"stated_goal\": \" g \"}, \"phase_2\": {\"branches\": [{\"name\": \"b\"}, \"x\"]}, \"phase_3\": {\"n\": 10106858, \"paradox_type\": \"Antinomy\"}}"
        :> <<"d", "e", "6", "f", "2", "6", "2", "1", "b", "a", "9", "b">>)
    )
    @@
    (
    ("{\"user_input\": \"s\", \"s1_knowledge\": {\"knowledge_gaps\": [\"g\"]}, \"phase_1\": {\"stated_goal\": \" g \"}, \"phase_2\": {\"branches\": [{\"name\": \"b\"}, \"x\"]}, \"phase_3\": {\"paradox_type\": \" \"}}"
        :> <<"0", "c", "a", "c", "a", "2", "f", "b", "5", "3", "b", "b">>)
    @@
    (
    ("{\"user_input\": \"s\", \"s1_knowledge\": {\"knowledge_gaps\": [\"g\"]}, \"phase_1\": {\"stated_goal\": \" g \"}, \"phase_2\": {\"branches\": [{\"name\": \"b\"}, \"x\"]}, \"phase_3\": {\"paradox_type\": \" Veridical \"}}"
        :> <<"f", "7", "a", "f", "f", "6", "c", "c", "b", "c", "a", "2">>)
    @@
    ("{\"user_input\": \"s\", \"s1_knowledge\": {\"knowledge_gaps\": [\"g\"]}, \"phase_1\": {\"stated_goal\": \" g \"}, \"phase_2\": {\"branches\": [{\"name\": \"b\"}, \"x\"]}, \"phase_3\": {\"paradox_type\": \"Antinomy\", \"n\": 10106858}}"
        :> <<"b", "3", "1", "7", "8", "f", "5", "f", "2", "8", "c", "c">>)
    )
    )
    )
    )
    @@
    (
    (
    (
    ("{\"user_input\": \"s\", \"s1_knowledge\": {\"knowledge_gaps\": [\"g\"]}, \"phase_1\": {\"stated_goal\": \" g \"}, \"phase_2\": {\"branches\": [{\"name\": \"b\"}, \"x\"]}, \"phase_3\": {\"paradox_type\": \"Antinomy\", \"n\": 13359876}}"
        :> <<"a", "c", "7", "c", "5", "7", "0", "d", "5", "9", "b", "f">>)
    @@
    ("{\"user_input\": \"s\", \"s1_knowledge\": {\"knowledge_gaps\": [\"g\"]}, \"phase_1\": {\"stated_goal\": \" g \"}, \"phase_2\": {\"branches\": [{\"name\": \"b\"}, \"x\"]}, \"phase_3\": {\"paradox_type\": \"Falsidical\", \"reasoning\": \" r \", \"contradiction_path\": [\"a\", \" \", \"b\"], \"mitigation\": \"m\"}}"
        :> <<"0", "7", "f", "f", "4", "6", "c", "b", "a", "8", "5", "2">>)
    )
    @@
    (
    ("{\"user_input\": \"s\", \"s1_knowledge\": {\"knowledge_gaps\": [\"g\"]}, \"phase_1\": {\"stated_goal\": \" g \"}, \"phase_2\": {\"branches\": [{\"name\": \"b\"}, \"x\"]}, \"phase_3\": {\"paradox_type\": \"Liar\"}}"
        :> <<"0", "3", "5", "b", "6", "6", "4", "b", "e", "4", "d", "b">>)
    @@
    (
    ("{\"user_input\": \"s\", \"s1_knowledge\": {\"knowledge_gaps\": [\"g\"]}, \"phase_1\": {\"stated_goal\": \" g \"}, \"phase_2\": {\"branches\": [{\"name\": \"b\"}, \"x\"]}, \"phase_3\": {\"paradox_type\": 5}}"
        :> <<"0", "8", "6", "2", "c", "7", "1", "4", "f", "e", "6", "a">>)
    @@
    ("{\"user_input\": \"s\", \"s1_knowledge\": {\"knowledge_gaps\": [\"g\"]}, \"phase_1\": {\"stated_goal\": \" g \"}, \"phase_2\": {\"branches\": [{\"name\": \"b\"}, \"x\"]}, \"phase_3\": {\"paradox_type\": null}}"
        :> <<"2", "7", "0", "0", "b", "6", "8", "2", "b", "b", "0", "4">>)
    )
    )
    )
    @@
    (
    (
    ("{\"user_input\": \"s\", \"s1_knowledge\": {\"knowledge_gaps\": [\"g\"]}, \"phase_1\": {\"stated_goal\": \" g \"}, \"phase_2\": {\"branches\": [{\"name\": \"b\"}, \"x\"]}, \"phase_3\": {}}"
        :> <<"4", "8", "6", "2", "b", "5", "4", "d", "6", "f", "b", "c">>)
    @@
    ("{\"user_input\": \"s\", \"s1_knowledge\": {\"knowledge_gaps\": [\"g\"]}, \"phase_1\": {\"stated_goal\": \" g \"}, \"phase_2\": {}, \"phase_3\": {\"n\": 10106858, \"paradox_type\": \"Antinomy\"}}"
        :> <<"0", "d", "0", "b", "8", "b", "0", "2", "5", "b", "5", "a">>)
    )
    @@
    (
    ("{\"user_input\": \"s\", \"s1_knowledge\": {\"knowledge_gaps\": [\"g\"]}, \"phase_1\": {\"stated_goal\": \" g \"}, \"phase_2\": {}, \"phase_3\": {\"paradox_type\": \" \"}}"
        :> <<"f", "6", "3", "6", "b", "8", "f", "b", "7", "b", "7", "4">>)
    @@
    (
    ("{\"user_input\": \"s\", \"s1_knowledge\": {\"knowledge_gaps\": [\"g\"]}, \"phase_1\": {\"stated_goal\": \" g \"}, \"phase_2\": {}, \"phase_3\": {\"paradox_type\": \" Veridical \"}}"
        :> <<"f", "e", "2", "7", "c", "e", "0", "7", "d", "4", "c", "4">>)
    @@
    ("{\"user_input\": \"s\", \"s1_knowledge\": {\"knowledge_gaps\": [\"g\"]}, \"phase_1\": {\"stated_goal\": \" g \"}, \"phase_2\": {}, \"phase_3\": {\"paradox_type\": \"Antinomy\", \"n\": 10106858}}"
        :> <<"0", "d", "f", "e", "f", "4", "8", "9", "8", "c", "4", "7">>)
    )
    )
    )
    )
    )
    )
    )
    )
    @@
    (
    (
    (
    (
    (
    (
    (
    ("{\"user_input\": \"s\", \"s1_knowledge\": {\"knowledge_gaps\": [\"g\"]}, \"phase_1\": {\"stated_goal\": \" g \"}, \"phase_2\": {}, \"phase_3\": {\"paradox_type\": \"Antinomy\", \"n\": 13359876}}"
        :> <<"6", "6", "2", "8", "c", "c", "7", "0", "5", "d", "5", "4">>)
    @@
    ("{\"user_input\": \"s\", \"s1_knowledge\": {\"knowledge_gaps\": [\"g\"]}, \"phase_1\": {\"stated_goal\": \" g \"}, \"phase_2\": {}, \"phase_3\": {\"paradox_type\": \"Falsidical\", \"reasoning\": \" r \", \"contradiction_path\": [\"a\", \" \", \"b\"], \"mitigation\": \"m\"}}"
        :> <<"0", "6", "d", "2", "a", "7", "4", "0", "0", "8", "4", "f">>)
    )
    @@
    (
    ("{\"user_input\": \"s\", \"s1_knowledge\": {\"knowledge_gaps\": [\"g\"]}, \"phase_1\": {\"stated_goal\": \" g \"}, \"phase_2\": {}, \"phase_3\": {\"paradox_type\": \"Liar\"}}"
        :> <<"c", "6", "5", "3", "1", "e", "2", "4", "7", "b", "1", "0">>)
    @@
    ("{\"user_input\": \"s\", \"s1_knowledge\": {\"knowledge_gaps\": [\"g\"]}, \"phase_1\": {\"stated_goal\": \" g \"}, \"phase_2\": {}, \"phase_3\": {\"paradox_type\": 5}}"
        :> <<"f", "8", "3", "3", "7", "2", "0", "0", "3", "6", "d", "8">>)
    )
    )
    @@
    (
    (
    ("{\"user_input\": \"s\", \"s1_knowledge\": {\"knowledge_gaps\": [\"g\"]}, \"phase_1\": {\"stated_goal\": \" g \"}, \"phase_2\": {}, \"phase_3\": {\"paradox_type\": null}}"
        :> <<"1", "e", "b", "c", "2", "c", "e", "a", "8", "6", "d", "0">>)
    @@
    ("{\"user_input\": \"s\", \"s1_knowledge\": {\"knowledge_gaps\": [\"g\"]}, \"phase_1\": {\"stated_goal\": \" g \"}, \"phase_2\": {}, \"phase_3\": {}}"
        :> <<"9", "f", "1", "4", "2", "f", "d", "2", "c", "0", "c", "d">>)
    )
    @@
    (
    ("{\"user_input\": \"s\", \"s1_knowledge\": {\"knowledge_gaps\": [\"g\"]}, \"phase_1\": {}, \"phase_2\": {\"branches\": [{\"name\": \"b\"}, \"x\"]}, \"phase_3\": {\"n\": 10106858, \"paradox_type\": \"Antinomy\"}}"
        :> <<"6", "2", "f", "6", "9", "6", "1", "e", "e", "6", "e", "1">>)
    @@
    (
    ("{\"user_input\": \"s\", \"s1_knowledge\": {\"knowledge_gaps\": [\"g\"]}, \"phase_1\": {}, \"phase_2\": {\"branches\": [{\"name\": \"b\"}, \"x\"]}, \"phase_3\": {\"paradox_type\": \" \"}}"
        :> <<"2", "c", "2", "2", "5", "f", "2", "8", "2", "4", "9", "5">>)
    @@
    ("{\"user_input\": \"s\", \"s1_knowledge\": {\"knowledge_gaps\": [\"g\"]}, \"phase_1\": {}, \"phase_2\": {\"branches\": [{\"name\": \"b\"}, \"x\"]}, \"phase_3\": {\"paradox_type\": \" Veridical \"}}"
        :> <<"3", "b", "5", "9", "a", "2", "3", "a", "b", "2", "6", "0">>)
    )
    )
    )
    )
    @@
    (
    (
    (
    ("{\"user_input\": \"s\", \"s1_knowledge\": {\"knowledge_gaps\": [\"g\"]}, \"phase_1\": {}, \"phase_2\": {\"branches\": [{\"name\": \"b\"}, \"x\"]}, \"phase_3\": {\"paradox_type\": \"Antinomy\", \"n\": 10106858}}"
        :> <<"3", "1", "9", "d", "4", "e", "a", "7", "b", "5", "9", "2">>)
    @@
    ("{\"user_input\": \"s\", \"s1_knowledge\": {\"knowledge_gaps\": [\"g\"]}, \"phase_1\": {}, \"phase_2\": {\"branches\": [{\"name\": \"b\"}, \"x\"]}, \"phase_3\": {\"paradox_type\": \"Antinomy\", \"n\": 13359876}}"
        :> <<"d", "2", "e", "c", "6", "6", "e", "a", "9", "e", "1", "1">>)
    )
    @@
    (
    ("{\"user_input\": \"s\", \"s1_knowledge\": {\"knowledge_gaps\": [\"g\"]}, \"phase_1\": {}, \"phase_2\": {\"branches\": [{\"name\": \"b\"}, \"x\"]}, \"phase_3\": {\"paradox_type\": \"Falsidical\", \"reasoning\": \" r \", \"contradiction_path\": [\"a\", \" \", \"b\"], \"mitigation\": \"m\"}}"
        :> <<"4", "e", "d", "4", "5", "b", "f", "9", "7", "d", "2", "1">>)
    @@
    (
    ("{\"user_input\": \"s\", \"s1_knowledge\": {\"knowledge_gaps\": [\"g\"]}, \"phase_1\": {}, \"phase_2\": {\"branches\": [{\"name\": \"b\"}, \"x\"]}, \"phase_3\": {\"paradox_type\": \"Liar\"}}"
        :> <<"2", "a", "b", "c", "0", "9", "6", "3", "5", "7", "6", "d">>)
    @@
    ("{\"user_input\": \"s\", \"s1_knowledge\": {\"knowledge_gaps\": [\"g\"]}, \"phase_1\": {}, \"phase_2\": {\"branches\": [{\"name\": \"b\"}, \"x\"]}, \"phase_3\": {\"paradox_type\": 5}}"
        :> <<"3", "8", "a", "1", "d", "6", "b", "7", "f", "0", "a", "b">>)
    )
    )
    )
    @@
    (
    (
    ("{\"user_input\": \"s\", \"s1_knowledge\": {\"knowledge_gaps\": [\"g\"]}, \"phase_1\": {}, \"phase_2\": {\"branches\": [{\"name\": \"b\"}, \"x\"]}, \"phase_3\": {\"paradox_type\": null}}"
        :> <<"2", "6", "6", "2", "a", "0", "b", "9", "9", "b", "4", "e">>)
    @@
    ("{\"user_input\": \"s\", \"s1_knowledge\": {\"knowledge_gaps\": [\"g\"]}, \"phase_1\": {}, \"phase_2\": {\"branches\": [{\"name\": \"b\"}, \"x\"]}, \"phase_3\": {}}"
        :> <<"5", "d", "4", "8", "3", "d", "1", "9", "9", "6", "d", "0">>)
    )
    @@
    (
    ("{\"user_input\": \"s\", \"s1_knowledge\": {\"knowledge_gaps\": [\"g\"]}, \"phase_1\": {}, \"phase_2\": {}, \"phase_3\": {\"n\": 10106858, \"paradox_type\": \"Antinomy\"}}"
        :> <<"5", "f", "3", "8", "0", "5", "7", "5", "2", "4", "a", "0">>)
    @@
    (
    ("{\"user_input\": \"s\", \"s1_knowledge\": {\"knowledge_gaps\": [\"g\"]}, \"phase_1\": {}, \"phase_2\": {}, \"phase_3\": {\"paradox_type\": \" \"}}"
        :> <<"9", "7", "6", "8", "f", "f", "2", "1", "b", "7", "e", "7">>)
    @@
    ("{\"user_input\": \"s\", \"s1_knowledge\": {\"knowledge_gaps\": [\"g\"]}, \"phase_1\": {}, \"phase_2\": {}, \"phase_3\": {\"paradox_type\": \" Veridical \"}}"
        :> <<"e", "6", "f", "7", "b", "1", "e", "6", "f", "3", "4", "c">>)
    )
    )
    )
    )
    )
    @@
    (
    (
    (
    (
    ("{\"user_input\": \"s\", \"s1_knowledge\": {\"knowledge_gaps\": [\"g\"]}, \"phase_1\": {}, \"phase_2\": {}, \"phase_3\": {\"paradox_type\": \"Antinomy\", \"n\": 10106858}}"
        :> <<"a", "3", "e", "f", "8", "3", "5", "9", "a", "c", "d", "0">>)
    @@
    ("{\"user_input\": \"s\", \"s1_knowledge\": {\"knowledge_gaps\": [\"g\"]}, \"phase_1\": {}, \"phase_2\": {}, \"phase_3\": {\"paradox_type\": \"Antinomy\", \"n\": 13359876}}"
        :> <<"f", "6", "6", "6", "6", "5", "7", "a", "f", "6", "9", "c">>)
    )
    @@
    (
    ("{\"user_input\": \"s\", \"s1_knowledge\": {\"knowledge_gaps\": [\"g\"]}, \"phase_1\": {}, \"phase_2\": {}, \"phase_3\": {\"paradox_type\": \"Falsidical\", \"reasoning\": \" r \", \"contradiction_path\": [\"a\", \" \", \"b\"], \"mitigation\": \"m\"}}"
        :> <<"e", "8", "f", "0", "8", "9", "a", "7", "6", "3", "1", "c">>)
    @@
    ("{\"user_input\": \"s\", \"s1_knowledge\": {\"knowledge_gaps\": [\"g\"]}, \"phase_1\": {}, \"phase_2\": {}, \"phase_3\": {\"paradox_type\": \"Liar\"}}"
        :> <<"7", "5", "e", "0", "d", "6", "8", "e", "0", "d", "1", "e">>)
    )
    )
    @@
    (
    (
    ("{\"user_input\": \"s\", \"s1_knowledge\": {\"knowledge_gaps\": [\"g\"]}, \"phase_1\": {}, \"phase_2\": {}, \"phase_3\": {\"paradox_type\": 5}}"
        :> <<"6", "2", "b", "4", "4", "9", "0", "d", "c", "9", "8", "a">>)
    @@
    ("{\"user_input\": \"s\", \"s1_knowledge\": {\"knowledge_gaps\": [\"g\"]}, \"phase_1\": {}, \"phase_2\": {}, \"phase_3\": {\"paradox_type\": null}}"
        :> <<"6", "8", "5", "a", "2", "e", "a", "9", "e", "2", "2", "8">>)
    )
    @@
    (
    ("{\"user_input\": \"s\", \"s1_knowledge\": {\"knowledge_gaps\": [\"g\"]}, \"phase_1\": {}, \"phase_2\": {}, \"phase_3\": {}}"
        :> <<"d", "b", "1", "9", "4", "e", "1", "8", "e", "8", "c", "1">>)
    @@
    (
    ("{\"user_input\": \"s\", \"s1_knowledge\": {}, \"phase_1\": {\"k\": 1}, \"phase_2\": {\"k\": 1}, \"phase_3\": {\"k\": 1}}"
        :> <<"9", "e", "e", "f", "e", "f", "5", "f", "9", "f", "0", "3">>)
    @@
    ("{\"user_input\": \"s\", \"s1_knowledge\": {}, \"phase_1\": {\"k\": 1}, \"phase_2\": {\"k\": 1}, \"phase_3\": {}}"
        :> <<"2", "9", "2", "e", "2", "f", "c", "2", "5", "4", "d", "4">>)
    )
    )
    )
    )
    @@
    (
    (
    (
    ("{\"user_input\": \"s\", \"s1_knowledge\": {}, \"phase_1\": {\"k\": 1}, \"phase_2\": {}, \"phase_3\": {\"k\": 1}}"
        :> <<"5", "e", "f", "c", "0", "e", "e", "2", "9", "2", "b", "e">>)
    @@
    ("{\"user_input\": \"s\", \"s1_knowledge\": {}, \"phase_1\": {\"k\": 1}, \"phase_2\": {}, \"phase_3\": {}}"
        :> <<"7", "c", "2", "c", "1", "f", "2", "b", "8", "d", "4", "e">>)
    )
    @@
    (
    ("{\"user_input\": \"s\", \"s1_knowledge\": {}, \"phase_1\": {\"stated_goal\": \" g \"}, \"phase_2\": {\"branches\": [{\"name\": \"b\"}, \"x\"]}, \"phase_3\": {\"n\": 10106858, \"paradox_type\": \"Antinomy\"}}"
        :> <<"d", "b", "4", "0", "a", "6", "8", "6", "0", "8", "a", "7">>)
    @@
    (
    ("{\"user_input\": \"s\", \"s1_knowledge\": {}, \"phase_1\": {\"stated_goal\": \" g \"}, \"phase_2\": {\"branches\": [{\"name\": \"b\"}, \"x\"]}, \"phase_3\": {\"paradox_type\": \" \"}}"
        :> <<"0", "f", "1", "7", "c", "6", "9", "1", "9", "0", "b", "3">>)
    @@
    ("{\"user_input\": \"s\", \"s1_knowledge\": {}, \"phase_1\": {\"stated_goal\": \" g \"}, \"phase_2\": {\"branches\": [{\"name\": \"b\"}, \"x\"]}, \"phase_3\": {\"paradox_type\": \" Veridical \"}}"
        :> <<"b", "9", "1", "8", "9", "3", "e", "5", "7", "e", "2", "9">>)
    )
    )
    )
    @@
    (
    (
    ("{\"user_input\": \"s\", \"s1_knowledge\": {}, \"phase_1\": {\"stated_goal\": \" g \"}, \"phase_2\": {\"branches\": [{\"name\": \"b\"}, \"x\"]}, \"phase_3\": {\"paradox_type\": \"Antinomy\", \"n\": 10106858}}"
        :> <<"1", "b", "0", "4", "a", "d", "7", "1", "e", "3", "d", "4">>)
    @@
    ("{\"user_input\": \"s\", \"s1_knowledge\": {}, \"phase_1\": {\"stated_goal\": \" g \"}, \"phase_2\": {\"branches\": [{\"name\": \"b\"}, \"x\"]}, \"phase_3\": {\"paradox_type\": \"Antinomy\", \"n\": 13359876}}"
        :> <<"d", "7", "d", "0", "0", "c", "6", "1", "b", "9", "2", "d">>)
    )
    @@
    (
    ("{\"user_input\": \"s\", \"s1_knowledge\": {}, \"phase_1\": {\"stated_goal\": \" g \"}, \"phase_2\": {\"branches\": [{\"name\": \"b\"}, \"x\"]}, \"phase_3\": {\"paradox_type\": \"Falsidical\", \"reasoning\": \" r \", \"contradiction_path\": [\"a\", \" \", \"b\"], \"mitigation\": \"m\"}}"
        :> <<"b", "d", "d", "3", "d", "e", "9", "5", "c", "c", "1", "1">>)
    @@
    (
    ("{\"user_input\": \"s\", \"s1_knowledge\": {}, \"phase_1\": {\"stated_goal\": \" g \"}, \"phase_2\": {\"branches\": [{\"name\": \"b\"}, \"x\"]}, \"phase_3\": {\"paradox_type\": \"Liar\"}}"
        :> <<"6", "b", "c", "4", "b", "b", "3", "9", "2", "f", "f", "c">>)
    @@
    ("{\"user_input\": \"s\", \"s1_knowledge\": {}, \"phase_1\": {\"stated_goal\": \" g \"}, \"phase_2\": {\"branches\": [{\"name\": \"b\"}, \"x\"]}, \"phase_3\": {\"paradox_type\": 5}}"
        :> <<"c", "5", "3", "6", "d", "a", "9", "4", "c", "0", "4", "0">>)
    )
    )
    )
    )
    )
    )
    @@
    (
    (
    (
    (
    (
    ("{\"user_input\": \"s\", \"s1_knowledge\": {}, \"phase_1\": {\"stated_goal\": \" g \"}, \"phase_2\": {\"branches\": [{\"name\": \"b\"}, \"x\"]}, \"phase_3\": {\"paradox_type\": null}}"
        :> <<"2", "2", "0", "4", "5", "d", "a", "0", "b", "d", "a", "6">>)
    @@
    ("{\"user_input\": \"s\", \"s1_knowledge\": {}, \"phase_1\": {\"stated_goal\": \" g \"}, \"phase_2\": {\"branches\": [{\"name\": \"b\"}, \"x\"]}, \"phase_3\": {}}"
        :> <<"1", "2", "4", "3", "8", "c", "7", "8", "f", "e", "4", "8">>)
    )
    @@
    (
    ("{\"user_input\": \"s\", \"s1_knowledge\": {}, \"phase_1\": {\"stated_goal\": \" g \"}, \"phase_2\": {}, \"phase_3\": {\"n\": 10106858, \"paradox_type\": \"Antinomy\"}}"
        :> <<"d", "6", "7", "b", "7", "a", "e", "9", "8", "b", "a", "9">>)
    @@
    ("{\"user_input\": \"s\", \"s1_knowledge\": {}, \"phase_1\": {\"stated_goal\": \" g \"}, \"phase_2\": {}, \"phase_3\": {\"paradox_type\": \" \"}}"
        :> <<"7", "7", "5", "8", "e", "1", "1", "e", "2", "2", "3", "e">>)
    )
    )
    @@
    (
    (
    ("{\"user_input\": \"s\", \"s1_knowledge\": {}, \"phase_1\": {\"stated_goal\": \" g \"}, \"phase_2\": {}, \"phase_3\": {\"paradox_type\": \" Veridical \"}}"
        :> <<"d", "d", "d", "6", "a", "7", "d", "9", "f", "a", "1", "e">>)
    @@
    ("{\"user_input\": \"s\", \"s1_knowledge\": {}, \"phase_1\": {\"stated_goal\": \" g \"}, \"phase_2\": {}, \"phase_3\": {\"paradox_type\": \"Antinomy\", \"n\": 10106858}}"
        :> <<"f", "e", "7", "b", "e", "0", "f", "d", "8", "c", "8", "8">>)
    )
    @@
    (
    ("{\"user_input\": \"s\", \"s1_knowledge\": {}, \"phase_1\": {\"stated_goal\": \" g \"}, \"phase_2\": {}, \"phase_3\": {\"paradox_type\": \"Antinomy\", \"n\": 13359876}}"
        :> <<"7", "0", "f", "9", "7", "a", "c", "f", "6", "3", "5", "2">>)
    @@
    (
    ("{\"user_input\": \"s\", \"s1_knowledge\": {}, \"phase_1\": {\"stated_goal\": \" g \"}, \"phase_2\": {}, \"phase_3\": {\"paradox_type\": \"Falsidical\", \"reasoning\": \" r \", \"contradiction_path\": [\"a\", \" \", \"b\"], \"mitigation\": \"m\"}}"
        :> <<"2", "3", "9", "a", "c", "2", "5", "0", "8", "3", "b", "9">>)
    @@
    ("{\"user_input\": \"s\", \"s1_knowledge\": {}, \"phase_1\": {\"stated_goal\": \" g \"}, \"phase_2\": {}, \"phase_3\": {\"paradox_type\": \"Liar\"}}"
        :> <<"3", "8", "9", "2", "2", "c", "d", "6", "b", "d", "d", "7">>)
    )
    )
    )
    )
    @@
    (
    (
    (
    ("{\"user_input\": \"s\", \"s1_knowledge\": {}, \"phase_1\": {\"stated_goal\": \" g \"}, \"phase_2\": {}, \"phase_3\": {\"paradox_type\": 5}}"
        :> <<"a", "5", "9", "2", "d", "9", "1", "8", "e", "2", "d", "2">>)
    @@
    ("{\"user_input\": \"s\", \"s1_knowledge\": {}, \"phase_1\": {\"stated_goal\": \" g \"}, \"phase_2\": {}, \"phase_3\": {\"paradox_type\": null}}"
        :> <<"b", "9", "d", "b", "4", "c", "7", "d", "0", "1", "b", "4">>)
    )
    @@
    (
    ("{\"user_input\": \"s\", \"s1_knowledge\": {}, \"phase_1\": {\"stated_goal\": \" g \"}, \"phase_2\": {}, \"phase_3\": {}}"
        :> <<"0", "b", "8", "4", "a", "3", "c", "3", "0", "2", "4", "c">>)
    @@
    (
    ("{\"user_input\": \"s\", \"s1_knowledge\": {}, \"phase_1\": {}, \"phase_2\": {\"branches\": [{\"name\": \"b\"}, \"x\"]}, \"phase_3\": {\"n\": 10106858, \"paradox_type\": \"Antinomy\"}}"
        :> <<"c", "0", "2", "c", "c", "8", "b", "c", "e", "9", "8", "8">>)
    @@
    ("{\"user_input\": \"s\", \"s1_knowledge\": {}, \"phase_1\": {}, \"phase_2\": {\"branches\": [{\"name\": \"b\"}, \"x\"]}, \"phase_3\": {\"paradox_type\": \" \"}}"
        :> <<"a", "4", "8", "1", "3", "4", "8", "0", "b", "9", "9", "b">>)
    )
    )
    )
    @@
    (
    (
    ("{\"user_input\": \"s\", \"s1_knowledge\": {}, \"phase_1\": {}, \"phase_2\": {\"branches\": [{\"name\": \"b\"}, \"x\"]}, \"phase_3\": {\"paradox_type\": \" Veridical \"}}"
        :> <<"f", "5", "8", "1", "2", "c", "5", "c", "9", "d", "f", "0">>)
    @@
    ("{\"user_input\": \"s\", \"s1_knowledge\": {}, \"phase_1\": {}, \"phase_2\": {\"branches\": [{\"name\": \"b\"}, \"x\"]}, \"phase_3\": {\"paradox_type\": \"Antinomy\", \"n\": 10106858}}"
        :> <<"d", "b", "e", "4", "7", "c", "e", "4", "0", "c", "9", "8">>)
    )
    @@
    (
    ("{\"user_input\": \"s\", \"s1_knowledge\": {}, \"phase_1\": {}, \"phase_2\": {\"branches\": [{\"name\": \"b\"}, \"x\"]}, \"phase_3\": {\"paradox_type\": \"Antinomy\", \"n\": 13359876}}"
        :> <<"b", "1", "c", "1", "6", "d", "8", "2", "b", "9", "8", "0">>)
    @@
    (
    ("{\"user_input\": \"s\", \"s1_knowledge\": {}, \"phase_1\": {}, \"phase_2\": {\"branches\": [{\"name\": \"b\"}, \"x\"]}, \"phase_3\": {\"paradox_type\": \"Falsidical\", \"reasoning\": \" r \", \"contradiction_path\": [\"a\", \" \", \"b\"], \"mitigation\": \"m\"}}"
        :> <<"e", "1", "0", "b", "0", "6", "0", "0", "1", "f", "f", "c">>)
    @@
    ("{\"user_input\": \"s\", \"s1_knowledge\": {}, \"phase_1\": {}, \"phase_2\": {\"branches\": [{\"name\": \"b\"}, \"x\"]}, \"phase_3\": {\"paradox_type\": \"Liar\"}}"
        :> <<"4", "f", "8", "4", "2", "9", "6", "0", "b", "9", "5", "e">>)
    )
    )
    )
    )
    )
    @@
    (
    (
    (
    (
    ("{\"user_input\": \"s\", \"s1_knowledge\": {}, \"phase_1\": {}, \"phase_2\": {\"branches\": [{\"name\": \"b\"}, \"x\"]}, \"phase_3\": {\"paradox_type\": 5}}"
        :> <<"f", "0", "0", "4", "b", "5", "7", "e", "2", "d", "a", "8">>)
    @@
    ("{\"user_input\": \"s\", \"s1_knowledge\": {}, \"phase_1\": {}, \"phase_2\": {\"branches\": [{\"name\": \"b\"}, \"x\"]}, \"phase_3\": {\"paradox_type\": null}}"
        :> <<"f", "5", "d", "5", "d", "a", "3", "a", "f", "8", "f", "3">>)
    )
    @@
    (
    ("{\"user_input\": \"s\", \"s1_knowledge\": {}, \"phase_1\": {}, \"phase_2\": {\"branches\": [{\"name\": \"b\"}, \"x\"]}, \"phase_3\": {}}"
        :> <<"c", "c", "e", "5", "1", "1", "8", "7", "f", "a", "8", "a">>)
    @@
    ("{\"user_input\": \"s\", \"s1_knowledge\": {}, \"phase_1\": {}, \"phase_2\": {\"k\": 1}, \"phase_3\": {\"k\": 1}}"
        :> <<"b", "9", "2", "5", "a", "8", "b", "a", "3", "4", "e", "9">>)
    )
    )
    @@
    (
    (
    ("{\"user_input\": \"s\", \"s1_knowledge\": {}, \"phase_1\": {}, \"phase_2\": {\"k\": 1}, \"phase_3\": {}}"
        :> <<"7", "9", "6", "4", "9", "8", "7", "3", "c", "c", "3", "9">>)
    @@
    ("{\"user_input\": \"s\", \"s1_knowledge\": {}, \"phase_1\": {}, \"phase_2\": {}, \"phase_3\": {\"k\": 1}}"
        :> <<"2", "c", "7", "e", "5", "8", "d", "6", "8", "1", "4", "9">>)
    )
    @@
    (
    ("{\"user_input\": \"s\", \"s1_knowledge\": {}, \"phase_1\": {}, \"phase_2\": {}, \"phase_3\": {\"n\": 10106858, \"paradox_type\": \"Antinomy\"}}"
        :> <<"a", "b", "c", "6", "a", "7", "1", "5", "9", "2", "4", "8">>)
    @@
    (
    ("{\"user_input\": \"s\", \"s1_knowledge\": {}, \"phase_1\": {}, \"phase_2\": {}, \"phase_3\": {\"paradox_type\": \" \"}}"
        :> <<"8", "f", "6", "3", "9", "e", "9", "d", "b", "7", "0", "4">>)
    @@
    ("{\"user_input\": \"s\", \"s1_knowledge\": {}, \"phase_1\": {}, \"phase_2\": {}, \"phase_3\": {\"paradox_type\": \" Veridical \"}}"
        :> <<"f", "7", "f", "e", "e", "b", "f", "7", "1", "e", "0", "5">>)
    )
    )
    )
    )
    @@
    (
    (
    (
    ("{\"user_input\": \"s\", \"s1_knowledge\": {}, \"phase_1\": {}, \"phase_2\": {}, \"phase_3\": {\"paradox_type\": \"Antinomy\", \"n\": 10106858}}"
        :> <<"0", "9", "5", "d", "1", "a", "6", "f", "1", "a", "0", "7">>)
    @@
    ("{\"user_input\": \"s\", \"s1_knowledge\": {}, \"phase_1\": {}, \"phase_2\": {}, \"phase_3\": {\"paradox_type\": \"Antinomy\", \"n\": 13359876}}"
        :> <<"7", "9", "2", "5", "1", "f", "6", "6", "b", "e", "5", "2">>)
    )
    @@
    (
    ("{\"user_input\": \"s\", \"s1_knowledge\": {}, \"phase_1\": {}, \"phase_2\": {}, \"phase_3\": {\"paradox_type\": \"Falsidical\", \"reasoning\": \" r \", \"contradiction_path\": [\"a\", \" \", \"b\"], \"mitigation\": \"m\"}}"
        :> <<"c", "8", "8", "a", "9", "6", "e", "3", "2", "b", "c", "6">>)
    @@
    (
    ("{\"user_input\": \"s\", \"s1_knowledge\": {}, \"phase_1\": {}, \"phase_2\": {}, \"phase_3\": {\"paradox_type\": \"Liar\"}}"
        :> <<"f", "9", "4", "3", "1", "9", "9", "8", "9", "a", "5", "3">>)
    @@
    ("{\"user_input\": \"s\", \"s1_knowledge\": {}, \"phase_1\": {}, \"phase_2\": {}, \"phase_3\": {\"paradox_type\": 5}}"
        :> <<"e", "3", "5", "9", "7", "2", "b", "6", "5", "1", "1", "3">>)
    )
    )
    )
    @@
    (
    (
    ("{\"user_input\": \"s\", \"s1_knowledge\": {}, \"phase_1\": {}, \"phase_2\": {}, \"phase_3\": {\"paradox_type\": null}}"
        :> <<"8", "9", "9", "2", "0", "7", "d", "2", "3", "7", "7", "6">>)
    @@
    ("{\"user_input\": \"s\", \"s1_knowledge\": {}, \"phase_1\": {}, \"phase_2\": {}, \"phase_3\": {}}"
        :> <<"5", "c", "f", "a", "d", "3", "e", "1", "d", "3", "3", "f">>)
    )
    @@
    (
    ("{\"user_input\": \"t\", \"s1_knowledge\": {\"knowledge_gaps\": [\"g\"]}, \"phase_1\": {\"stated_goal\": \" g \"}, \"phase_2\": {\"branches\": [{\"name\": \"b\"}, \"x\"]}, \"phase_3\": {\"n\": 10106858, \"paradox_type\": \"Antinomy\"}}"
        :> <<"d", "3", "6", "3", "1", "c", "4", "0", "c", "0", "8", "8">>)
    @@
    (
    ("{\"user_input\": \"t\", \"s1_knowledge\": {\"knowledge_gaps\": [\"g\"]}, \"phase_1\": {\"stated_goal\": \" g \"}, \"phase_2\": {\"branches\": [{\"name\": \"b\"}, \"x\"]}, \"phase_3\": {\"paradox_type\": \" \"}}"
        :> <<"7", "6", "6", "2", "0", "4", "d", "4", "e", "2", "b", "7">>)
    @@
    ("{\"user_input\": \"t\", \"s1_knowledge\": {\"knowledge_gaps\": [\"g\"]}, \"phase_1\": {\"stated_goal\": \" g \"}, \"phase_2\": {\"branches\": [{\"name\": \"b\"}, \"x\"]}, \"phase_3\": {\"paradox_type\": \" Veridical \"}}"
        :> <<"8", "b", "c", "0", "3", "6", "d", "8", "3", "c", "4", "1">>)
    )
    )
    )
    )
    )
    )
    )
    @@
    (
    (
    (
    (
    (
    (
    ("{\"user_input\": \"t\", \"s1_knowledge\": {\"knowledge_gaps\": [\"g\"]}, \"phase_1\": {\"stated_goal\": \" g \"}, \"phase_2\": {\"branches\": [{\"name\": \"b\"}, \"x\"]}, \"phase_3\": {\"paradox_type\": \"Antinomy\", \"n\": 10106858}}"
        :> <<"a", "8", "4", "0", "f", "8", "a", "3", "b", "9", "5", "b">>)
    @@
    ("{\"user_input\": \"t\", \"s1_knowledge\": {\"knowledge_gaps\": [\"g\"]}, \"phase_1\": {\"stated_goal\": \" g \"}, \"phase_2\": {\"branches\": [{\"name\": \"b\"}, \"x\"]}, \"phase_3\": {\"paradox_type\": \"Antinomy\", \"n\": 13359876}}"
        :> <<"4", "2", "7", "e", "6", "6", "0", "a", "3", "8", "e", "f">>)
    )
    @@
    (
    ("{\"user_input\": \"t\", \"s1_knowledge\": {\"knowledge_gaps\": [\"g\"]}, \"phase_1\": {\"stated_goal\": \" g \"}, \"phase_2\": {\"branches\": [{\"name\": \"b\"}, \"x\"]}, \"phase_3\": {\"paradox_type\": \"Falsidical\", \"reasoning\": \" r \", \"contradiction_path\": [\"a\", \" \", \"b\"], \"mitigation\": \"m\"}}"
        :> <<"0", "5", "b", "d", "f", "a", "4", "3", "0", "b", "8", "f">>)
    @@
    ("{\"user_input\": \"t\", \"s1_knowledge\": {\"knowledge_gaps\": [\"g\"]}, \"phase_1\": {\"stated_goal\": \" g \"}, \"phase_2\": {\"branches\": [{\"name\": \"b\"}, \"x\"]}, \"phase_3\": {\"paradox_type\": \"Liar\"}}"
        :> <<"4", "5", "7", "b", "b", "6", "8", "6", "8", "3", "0", "b">>)
    )
    )
    @@
    (
    (
    ("{\"user_input\": \"t\", \"s1_knowledge\": {\"knowledge_gaps\": [\"g\"]}, \"phase_1\": {\"stated_goal\": \" g \"}, \"phase_2\": {\"branches\": [{\"name\": \"b\"}, \"x\"]}, \"phase_3\": {\"paradox_type\": 5}}"
        :> <<"9", "5", "8", "4", "c", "a", "3", "c", "2", "8", "6", "c">>)
    @@
    ("{\"user_input\": \"t\", \"s1_knowledge\": {\"knowledge_gaps\": [\"g\"]}, \"phase_1\": {\"stated_goal\": \" g \"}, \"phase_2\": {\"branches\": [{\"name\": \"b\"}, \"x\"]}, \"phase_3\": {\"paradox_type\": null}}"
        :> <<"3", "3", "b", "a", "4", "7", "c", "e", "0", "2", "0", "1">>)
    )
    @@
    (
    ("{\"user_input\": \"t\", \"s1_knowledge\": {\"knowledge_gaps\": [\"g\"]}, \"phase_1\": {\"stated_goal\": \" g \"}, \"phase_2\": {\"branches\": [{\"name\": \"b\"}, \"x\"]}, \"phase_3\": {}}"
        :> <<"1", "b", "b", "f", "b", "0", "6", "b", "c", "5", "a", "2">>)
    @@
    (
    ("{\"user_input\": \"t\", \"s1_knowledge\": {\"knowledge_gaps\": [\"g\"]}, \"phase_1\": {\"stated_goal\": \" g \"}, \"phase_2\": {}, \"phase_3\": {\"n\": 10106858, \"paradox_type\": \"Antinomy\"}}"
        :> <<"b", "d", "6", "f", "f", "0", "d", "a", "f", "9", "f", "5">>)
    @@
    ("{\"user_input\": \"t\", \"s1_knowledge\": {\"knowledge_gaps\": [\"g\"]}, \"phase_1\": {\"stated_goal\": \" g \"}, \"phase_2\": {}, \"phase_3\": {\"paradox_type\": \" \"}}"
        :> <<"a", "6", "2", "1", "0", "4", "e", "0", "7", "f", "a", "8">>)
    )
    )
    )
    )
    @@
    (
    (
    (
    ("{\"user_input\": \"t\", \"s1_knowledge\": {\"knowledge_gaps\": [\"g\"]}, \"phase_1\": {\"stated_goal\": \" g \"}, \"phase_2\": {}, \"phase_3\": {\"paradox_type\": \" Veridical \"}}"
        :> <<"4", "a", "1", "7", "1", "1", "3", "7", "f", "6", "3", "7">>)
    @@
    ("{\"user_input\": \"t\", \"s1_knowledge\": {\"knowledge_gaps\": [\"g\"]}, \"phase_1\": {\"stated_goal\": \" g \"}, \"phase_2\": {}, \"phase_3\": {\"paradox_type\": \"Antinomy\", \"n\": 10106858}}"
        :> <<"4", "1", "c", "d", "c", "9", "0", "e", "4", "c", "0", "f">>)
    )
    @@
    (
    ("{\"user_input\": \"t\", \"s1_knowledge\": {\"knowledge_gaps\": [\"g\"]}, \"phase_1\": {\"stated_goal\": \" g \"}, \"phase_2\": {}, \"phase_3\": {\"paradox_type\": \"Antinomy\", \"n\": 13359876}}"
        :> <<"b", "1", "3", "f", "0", "c", "7", "4", "f", "9", "2", "0">>)
    @@
    (
    ("{\"user_input\": \"t\", \"s1_knowledge\": {\"knowledge_gaps\": [\"g\"]}, \"phase_1\": {\"stated_goal\": \" g \"}, \"phase_2\": {}, \"phase_3\": {\"paradox_type\": \"Falsidical\", \"reasoning\": \" r \", \"contradiction_path\": [\"a\", \" \", \"b\"], \"mitigation\": \"m\"}}"
        :> <<"a", "8", "b", "8", "c", "8", "9", "e", "9", "3", "3", "e">>)
    @@
    ("{\"user_input\": \"t\", \"s1_knowledge\": {\"knowledge_gaps\": [\"g\"]}, \"phase_1\": {\"stated_goal\": \" g \"}, \"phase_2\": {}, \"phase_3\": {\"paradox_type\": \"Liar\"}}"
        :> <<"8", "7", "3", "3", "2", "0", "2", "0", "9", "8", "1", "d">>)
    )
    )
    )
    @@
    (
    (
    ("{\"user_input\": \"t\", \"s1_knowledge\": {\"knowledge_gaps\": [\"g\"]}, \"phase_1\": {\"stated_goal\": \" g \"}, \"phase_2\": {}, \"phase_3\": {\"paradox_type\": 5}}"
        :> <<"a", "c", "f", "2", "e", "3", "9", "d", "b", "7", "5", "f">>)
    @@
    ("{\"user_input\": \"t\", \"s1_knowledge\": {\"knowledge_gaps\": [\"g\"]}, \"phase_1\": {\"stated_goal\": \" g \"}, \"phase_2\": {}, \"phase_3\": {\"paradox_type\": null}}"
        :> <<"f", "c", "3", "e", "a", "5", "1", "4", "9", "7", "a", "6">>)
    )
    @@
    (
    ("{\"user_input\": \"t\", \"s1_knowledge\": {\"knowledge_gaps\": [\"g\"]}, \"phase_1\": {\"stated_goal\": \" g \"}, \"phase_2\": {}, \"phase_3\": {}}"
        :> <<"f", "2", "9", "b", "a", "c", "1", "d", "a", "3", "8", "1">>)
    @@
    (
    ("{\"user_input\": \"t\", \"s1_knowledge\": {\"knowledge_gaps\": [\"g\"]}, \"phase_1\": {}, \"phase_2\": {\"branches\": [{\"name\": \"b\"}, \"x\"]}, \"phase_3\": {\"n\": 10106858, \"paradox_type\": \"Antinomy\"}}"
        :> <<"5", "0", "8", "a", "2", "7", "a", "f", "5", "b", "f", "c">>)
    @@
    ("{\"user_input\": \"t\", \"s1_knowledge\": {\"knowledge_gaps\": [\"g\"]}, \"phase_1\": {}, \"phase_2\": {\"branches\": [{\"name\": \"b\"}, \"x\"]}, \"phase_3\": {\"paradox_type\": \" \"}}"
        :> <<"8", "6", "2", "9", "9", "8", "9", "1", "b", "2", "1", "2">>)
    )
    )
    )
    )
    )
    @@
    (
    (
    (
    (
    ("{\"user_input\": \"t\", \"s1_knowledge\": {\"knowledge_gaps\": [\"g\"]}, \"phase_1\": {}, \"phase_2\": {\"branches\": [{\"name\": \"b\"}, \"x\"]}, \"phase_3\": {\"paradox_type\": \" Veridical \"}}"
        :> <<"e", "4", "5", "c", "a", "1", "b", "3", "5", "5", "8", "7">>)
    @@
    ("{\"user_input\": \"t\", \"s1_knowledge\": {\"knowledge_gaps\": [\"g\"]}, \"phase_1\": {}, \"phase_2\": {\"branches\": [{\"name\": \"b\"}, \"x\"]}, \"phase_3\": {\"paradox_type\": \"Antinomy\", \"n\": 10106858}}"
        :> <<"7", "f", "c", "9", "9", "0", "9", "f", "0", "c", "d", "e">>)
    )
    @@
    (
    ("{\"user_input\": \"t\", \"s1_knowledge\": {\"knowledge_gaps\": [\"g\"]}, \"phase_1\": {}, \"phase_2\": {\"branches\": [{\"name\": \"b\"}, \"x\"]}, \"phase_3\": {\"paradox_type\": \"Antinomy\", \"n\": 13359876}}"
        :> <<"3", "f", "5", "2", "7", "5", "1", "1", "2", "9", "3", "d">>)
    @@
    ("{\"user_input\": \"t\", \"s1_knowledge\": {\"knowledge_gaps\": [\"g\"]}, \"phase_1\": {}, \"phase_2\": {\"branches\": [{\"name\": \"b\"}, \"x\"]}, \"phase_3\": {\"paradox_type\": \"Falsidical\", \"reasoning\": \" r \", \"contradiction_path\": [\"a\", \" \", \"b\"], \"mitigation\": \"m\"}}"
        :> <<"b", "f", "7", "d", "9", "5", "c", "1", "3", "4", "e", "8">>)
    )
    )
    @@
    (
    (
    ("{\"user_input\": \"t\", \"s1_knowledge\": {\"knowledge_gaps\": [\"g\"]}, \"phase_1\": {}, \"phase_2\": {\"branches\": [{\"name\": \"b\"}, \"x\"]}, \"phase_3\": {\"paradox_type\": \"Liar\"}}"
        :> <<"c", "9", "6", "b", "5", "0", "0", "5", "d", "3", "e", "d">>)
    @@
    ("{\"user_input\": \"t\", \"s1_knowledge\": {\"knowledge_gaps\": [\"g\"]}, \"phase_1\": {}, \"phase_2\": {\"branches\": [{\"name\": \"b\"}, \"x\"]}, \"phase_3\": {\"paradox_type\": 5}}"
        :> <<"3", "2", "6", "4", "0", "8", "6", "f", "f", "a", "d", "1">>)
    )
    @@
    (
    ("{\"user_input\": \"t\", \"s1_knowledge\": {\"knowledge_gaps\": [\"g\"]}, \"phase_1\": {}, \"phase_2\": {\"branches\": [{\"name\": \"b\"}, \"x\"]}, \"phase_3\": {\"paradox_type\": null}}"
        :> <<"a", "5", "d", "8", "c", "f", "c", "0", "9", "b", "f", "a">>)
    @@
    (
    ("{\"user_input\": \"t\", \"s1_knowledge\": {\"knowledge_gaps\": [\"g\"]}, \"phase_1\": {}, \"phase_2\": {\"branches\": [{\"name\": \"b\"}, \"x\"]}, \"phase_3\": {}}"
        :> <<"2", "2", "9", "f", "4", "5", "5", "6", "7", "1", "9", "1">>)
    @@
    ("{\"user_input\": \"t\", \"s1_knowledge\": {\"knowledge_gaps\": [\"g\"]}, \"phase_1\": {}, \"phase_2\": {}, \"phase_3\": {\"n\": 10106858, \"paradox_type\": \"Antinomy\"}}"
        :> <<"b", "4", "0", "c", "2", "1", "6", "4", "4", "8", "8", "b">>)
    )
    )
    )
    )
    @@
    (
    (
    (
    ("{\"user_input\": \"t\", \"s1_knowledge\": {\"knowledge_gaps\": [\"g\"]}, \"phase_1\": {}, \"phase_2\": {}, \"phase_3\": {\"paradox_type\": \" \"}}"
        :> <<"6", "1", "2", "8", "f", "8", "f", "e", "4", "7", "5", "2">>)
    @@
    ("{\"user_input\": \"t\", \"s1_knowledge\": {\"knowledge_gaps\": [\"g\"]}, \"phase_1\": {}, \"phase_2\": {}, \"phase_3\": {\"paradox_type\": \" Veridical \"}}"
        :> <<"8", "a", "e", "a", "6", "8", "f", "9", "3", "6", "d", "0">>)
    )
    @@
    (
    ("{\"user_input\": \"t\", \"s1_knowledge\": {\"knowledge_gaps\": [\"g\"]}, \"phase_1\": {}, \"phase_2\": {}, \"phase_3\": {\"paradox_type\": \"Antinomy\", \"n\": 10106858}}"
        :> <<"8", "3", "e", "3", "b", "5", "8", "3", "b", "a", "0", "7">>)
    @@
    (
    ("{\"user_input\": \"t\", \"s1_knowledge\": {\"knowledge_gaps\": [\"g\"]}, \"phase_1\": {}, \"phase_2\": {}, \"phase_3\": {\"paradox_type\": \"Antinomy\", \"n\": 13359876}}"
        :> <<"c", "c", "4", "4", "6", "e", "0", "e", "7", "f", "d", "6">>)
    @@
    ("{\"user_input\": \"t\", \"s1_knowledge\": {\"knowledge_gaps\": [\"g\"]}, \"phase_1\": {}, \"phase_2\": {}, \"phase_3\": {\"paradox_type\": \"Falsidical\", \"reasoning\": \" r \", \"contradiction_path\": [\"a\", \" \", \"b\"], \"mitigation\": \"m\"}}"
        :> <<"d", "a", "5", "4", "7", "2", "9", "0", "1", "7", "0", "2">>)
    )
    )
    )
    @@
    (
    (
    ("{\"user_input\": \"t\", \"s1_knowledge\": {\"knowledge_gaps\": [\"g\"]}, \"phase_1\": {}, \"phase_2\": {}, \"phase_3\": {\"paradox_type\": \"Liar\"}}"
        :> <<"e", "0", "2", "4", "5", "a", "0", "0", "1", "1", "f", "9">>)
    @@
    ("{\"user_input\": \"t\", \"s1_knowledge\": {\"knowledge_gaps\": [\"g\"]}, \"phase_1\": {}, \"phase_2\": {}, \"phase_3\": {\"paradox_type\": 5}}"
        :> <<"9", "1", "3", "4", "c", "e", "f", "f", "d", "f", "c", "b">>)
    )
    @@
    (
    ("{\"user_input\": \"t\", \"s1_knowledge\": {\"knowledge_gaps\": [\"g\"]}, \"phase_1\": {}, \"phase_2\": {}, \"phase_3\": {\"paradox_type\": null}}"
        :> <<"8", "b", "7", "2", "7", "0", "9", "6", "c", "a", "d", "8">>)
    @@
    (
    ("{\"user_input\": \"t\", \"s1_knowledge\": {\"knowledge_gaps\": [\"g\"]}, \"phase_1\": {}, \"phase_2\": {}, \"phase_3\": {}}"
        :> <<"c", "b", "3", "e", "5", "0", "2", "2", "0", "4", "b", "1">>)
    @@
    ("{\"user_input\": \"t\", \"s1_knowledge\": {}, \"phase_1\": {\"stated_goal\": \" g \"}, \"phase_2\": {\"branches\": [{\"name\": \"b\"}, \"x\"]}, \"phase_3\": {\"n\": 10106858, \"paradox_type\": \"Antinomy\"}}"
        :> <<"f", "a", "5", "7", "1", "7", "d", "6", "d", "c", "0", "b">>)
    )
    )
    )
    )
    )
    )
    @@
    (
    (
    (
    (
    (
    ("{\"user_input\": \"t\", \"s1_knowledge\": {}, \"phase_1\": {\"stated_goal\": \" g \"}, \"phase_2\": {\"branches\": [{\"name\": \"b\"}, \"x\"]}, \"phase_3\": {\"paradox_type\": \" \"}}"
        :> <<"b", "5", "5", "b", "f", "5", "4", "5", "b", "0", "d", "1">>)
    @@
    ("{\"user_input\": \"t\", \"s1_knowledge\": {}, \"phase_1\": {\"stated_goal\": \" g \"}, \"phase_2\": {\"branches\": [{\"name\": \"b\"}, \"x\"]}, \"phase_3\": {\"paradox_type\": \" Veridical \"}}"
        :> <<"b", "d", "3", "a", "f", "5", "6", "4", "1", "8", "b", "0">>)
    )
    @@
    (
    ("{\"user_input\": \"t\", \"s1_knowledge\": {}, \"phase_1\": {\"stated_goal\": \" g \"}, \"phase_2\": {\"branches\": [{\"name\": \"b\"}, \"x\"]}, \"phase_3\": {\"paradox_type\": \"Antinomy\", \"n\": 10106858}}"
        :> <<"8", "7", "8", "c", "e", "3", "9", "5", "a", "f", "e", "2">>)
    @@
    ("{\"user_input\": \"t\", \"s1_knowledge\": {}, \"phase_1\": {\"stated_goal\": \" g \"}, \"phase_2\": {\"branches\": [{\"name\": \"b\"}, \"x\"]}, \"phase_3\": {\"paradox_type\": \"Antinomy\", \"n\": 13359876}}"
        :> <<"d", "3", "2", "6", "1", "a", "c", "a", "8", "6", "6", "3">>)
    )
    )
    @@
    (
    (
    ("{\"user_input\": \"t\", \"s1_knowledge\": {}, \"phase_1\": {\"stated_goal\": \" g \"}, \"phase_2\": {\"branches\": [{\"name\": \"b\"}, \"x\"]}, \"phase_3\": {\"paradox_type\": \"Falsidical\", \"reasoning\": \" r \", \"contradiction_path\": [\"a\", \" \", \"b\"], \"mitigation\": \"m\"}}"
        :> <<"2", "a", "8", "0", "2", "4", "c", "8", "a", "2", "b", "6">>)
    @@
    ("{\"user_input\": \"t\", \"s1_knowledge\": {}, \"phase_1\": {\"stated_goal\": \" g \"}, \"phase_2\": {\"branches\": [{\"name\": \"b\"}, \"x\"]}, \"phase_3\": {\"paradox_type\": \"Liar\"}}"
        :> <<"2", "5", "3", "4", "5", "e", "e", "b", "6", "6", "3", "3">>)
    )
    @@
    (
    ("{\"user_input\": \"t\", \"s1_knowledge\": {}, \"phase_1\": {\"stated_goal\": \" g \"}, \"phase_2\": {\"branches\": [{\"name\": \"b\"}, \"x\"]}, \"phase_3\": {\"paradox_type\": 5}}"
        :> <<"6", "b", "6", "f", "7", "d", "a", "8", "9", "7", "e", "4">>)
    @@
    (
    ("{\"user_input\": \"t\", \"s1_knowledge\": {}, \"phase_1\": {\"stated_goal\": \" g \"}, \"phase_2\": {\"branches\": [{\"name\": \"b\"}, \"x\"]}, \"phase_3\": {\"paradox_type\": null}}"
        :> <<"e", "8", "c", "7", "9", "c", "8", "b", "b", "6", "2", "6">>)
    @@
    ("{\"user_input\": \"t\", \"s1_knowledge\": {}, \"phase_1\": {\"stated_goal\": \" g \"}, \"phase_2\": {\"branches\": [{\"name\": \"b\"}, \"x\"]}, \"phase_3\": {}}"
        :> <<"f", "d", "4", "b", "3", "9", "c", "2", "3", "b", "e", "b">>)
    )
    )
    )
    )
    @@
    (
    (
    (
    ("{\"user_input\": \"t\", \"s1_knowledge\": {}, \"phase_1\": {\"stated_goal\": \" g \"}, \"phase_2\": {}, \"phase_3\": {\"n\": 10106858, \"paradox_type\": \"Antinomy\"}}"
        :> <<"5", "f", "4", "2", "a", "6", "1", "0", "6", "3", "d", "8">>)
    @@
    ("{\"user_input\": \"t\", \"s1_knowledge\": {}, \"phase_1\": {\"stated_goal\": \" g \"}, \"phase_2\": {}, \"phase_3\": {\"paradox_type\": \" \"}}"
        :> <<"c", "4", "0", "7", "6", "6", "0", "1", "6", "4", "6", "d">>)
    )
    @@
    (
    ("{\"user_input\": \"t\", \"s1_knowledge\": {}, \"phase_1\": {\"stated_goal\": \" g \"}, \"phase_2\": {}, \"phase_3\": {\"paradox_type\": \" Veridical \"}}"
        :> <<"e", "7", "b", "9", "b", "4", "2", "8", "d", "b", "f", "4">>)
    @@
    (
    ("{\"user_input\": \"t\", \"s1_knowledge\": {}, \"phase_1\": {\"stated_goal\": \" g \"}, \"phase_2\": {}, \"phase_3\": {\"paradox_type\": \"Antinomy\", \"n\": 10106858}}"
        :> <<"5", "e", "a", "c", "3", "5", "6", "0", "0", "b", "6", "6">>)
    @@
    ("{\"user_input\": \"t\", \"s1_knowledge\": {}, \"phase_1\": {\"stated_goal\": \" g \"}, \"phase_2\": {}, \"phase_3\": {\"paradox_type\": \"Antinomy\", \"n\": 13359876}}"
        :> <<"2", "c", "1", "a", "a", "b", "7", "a", "a", "f", "1", "5">>)
    )
    )
    )
    @@
    (
    (
    ("{\"user_input\": \"t\", \"s1_knowledge\": {}, \"phase_1\": {\"stated_goal\": \" g \"}, \"phase_2\": {}, \"phase_3\": {\"paradox_type\": \"Falsidical\", \"reasoning\": \" r \", \"contradiction_path\": [\"a\", \" \", \"b\"], \"mitigation\": \"m\"}}"
        :> <<"6", "e", "4", "2", "3", "5", "d", "f", "1", "7", "6", "e">>)
    @@
    ("{\"user_input\": \"t\", \"s1_knowledge\": {}, \"phase_1\": {\"stated_goal\": \" g \"}, \"phase_2\": {}, \"phase_3\": {\"paradox_type\": \"Liar\"}}"
        :> <<"5", "9", "7", "e", "f", "2", "4", "d", "a", "2", "9", "8">>)
    )
    @@
    (
    ("{\"user_input\": \"t\", \"s1_knowledge\": {}, \"phase_1\": {\"stated_goal\": \" g \"}, \"phase_2\": {}, \"phase_3\": {\"paradox_type\": 5}}"
        :> <<"4", "4", "8", "e", "d", "5", "a", "1", "d", "e", "e", "2">>)
    @@
    (
    ("{\"user_input\": \"t\", \"s1_knowledge\": {}, \"phase_1\": {\"stated_goal\": \" g \"}, \"phase_2\": {}, \"phase_3\": {\"paradox_type\": null}}"
        :> <<"d", "2", "b", "6", "f", "b", "6", "5", "1", "5", "0", "d">>)
    @@
    ("{\"user_input\": \"t\", \"s1_knowledge\": {}, \"phase_1\": {\"stated_goal\": \" g \"}, \"phase_2\": {}, \"phase_3\": {}}"
        :> <<"8", "9", "8", "3", "f", "6", "0", "6", "5", "7", "9", "9">>)
    )
    )
    )
    )
    )
    @@
    (
    (
    (
    (
    ("{\"user_input\": \"t\", \"s1_knowledge\": {}, \"phase_1\": {}, \"phase_2\": {\"branches\": [{\"name\": \"b\"}, \"x\"]}, \"phase_3\": {\"n\": 10106858, \"paradox_type\": \"Antinomy\"}}"
        :> <<"c", "8", "9", "0", "b", "7", "4", "0", "2", "4", "a", "c">>)
    @@
    ("{\"user_input\": \"t\", \"s1_knowledge\": {}, \"phase_1\": {}, \"phase_2\": {\"branches\": [{\"name\": \"b\"}, \"x\"]}, \"phase_3\": {\"paradox_type\": \" \"}}"
        :> <<"a", "0", "9", "c", "0", "9", "8", "b", "2", "e", "a", "e">>)
    )
    @@
    (
    ("{\"user_input\": \"t\", \"s1_knowledge\": {}, \"phase_1\": {}, \"phase_2\": {\"branches\": [{\"name\": \"b\"}, \"x\"]}, \"phase_3\": {\"paradox_type\": \" Veridical \"}}"
        :> <<"9", "7", "e", "c", "d", "0", "c", "6", "9", "0", "7", "5">>)
    @@
    (
    ("{\"user_input\": \"t\", \"s1_knowledge\": {}, \"phase_1\": {}, \"phase_2\": {\"branches\": [{\"name\": \"b\"}, \"x\"]}, \"phase_3\": {\"paradox_type\": \"Antinomy\", \"n\": 10106858}}"
        :> <<"e", "3", "7", "9", "6", "e", "3", "9", "8", "3", "d", "2">>)
    @@
    ("{\"user_input\": \"t\", \"s1_knowledge\": {}, \"phase_1\": {}, \"phase_2\": {\"branches\": [{\"name\": \"b\"}, \"x\"]}, \"phase_3\": {\"paradox_type\": \"Antinomy\", \"n\": 13359876}}"
        :> <<"3", "d", "b", "1", "9", "1", "d", "5", "6", "9", "3", "8">>)
    )
    )
    )
    @@
    (
    (
    ("{\"user_input\": \"t\", \"s1_knowledge\": {}, \"phase_1\": {}, \"phase_2\": {\"branches\": [{\"name\": \"b\"}, \"x\"]}, \"phase_3\": {\"paradox_type\": \"Falsidical\", \"reasoning\": \" r \", \"contradiction_path\": [\"a\", \" \", \"b\"], \"mitigation\": \"m\"}}"
        :> <<"d", "3", "8", "0", "2", "6", "0", "1", "0", "c", "6", "6">>)
    @@
    ("{\"user_input\": \"t\", \"s1_knowledge\": {}, \"phase_1\": {}, \"phase_2\": {\"branches\": [{\"name\": \"b\"}, \"x\"]}, \"phase_3\": {\"paradox_type\": \"Liar\"}}"
        :> <<"3", "c", "e", "5", "0", "2", "c", "c", "5", "6", "8", "d">>)
    )
    @@
    (
    ("{\"user_input\": \"t\", \"s1_knowledge\": {}, \"phase_1\": {}, \"phase_2\": {\"branches\": [{\"name\": \"b\"}, \"x\"]}, \"phase_3\": {\"paradox_type\": 5}}"
        :> <<"8", "d", "1", "7", "0", "6", "a", "1", "4", "3", "c", "f">>)
    @@
    (
    ("{\"user_input\": \"t\", \"s1_knowledge\": {}, \"phase_1\": {}, \"phase_2\": {\"branches\": [{\"name\": \"b\"}, \"x\"]}, \"phase_3\": {\"paradox_type\": null}}"
        :> <<"9", "9", "0", "7", "c", "7", "f", "0", "b", "8", "7", "3">>)
    @@
    ("{\"user_input\": \"t\", \"s1_knowledge\": {}, \"phase_1\": {}, \"phase_2\": {\"branches\": [{\"name\": \"b\"}, \"x\"]}, \"phase_3\": {}}"
        :> <<"7", "b", "5", "a", "1", "4", "a", "a", "7", "f", "4", "b">>)
    )
    )
    )
    )
    @@
    (
    (
    (
    ("{\"user_input\": \"t\", \"s1_knowledge\": {}, \"phase_1\": {}, \"phase_2\": {}, \"phase_3\": {\"n\": 10106858, \"paradox_type\": \"Antinomy\"}}"
        :> <<"b", "5", "6", "4", "d", "3", "2", "3", "1", "e", "7", "2">>)
    @@
    ("{\"user_input\": \"t\", \"s1_knowledge\": {}, \"phase_1\": {}, \"phase_2\": {}, \"phase_3\": {\"paradox_type\": \" \"}}"
        :> <<"d", "5", "c", "3", "a", "1", "f", "9", "9", "4", "d", "1">>)
    )
    @@
    (
    ("{\"user_input\": \"t\", \"s1_knowledge\": {}, \"phase_1\": {}, \"phase_2\": {}, \"phase_3\": {\"paradox_type\": \" Veridical \"}}"
        :> <<"3", "d", "2", "a", "5", "0", "9", "b", "b", "e", "3", "e">>)
    @@
    (
    ("{\"user_input\": \"t\", \"s1_knowledge\": {}, \"phase_1\": {}, \"phase_2\": {}, \"phase_3\": {\"paradox_type\": \"Antinomy\", \"n\": 10106858}}"
        :> <<"f", "d", "0", "2", "e", "1", "0", "b", "e", "4", "8", "6">>)
    @@
    ("{\"user_input\": \"t\", \"s1_knowledge\": {}, \"phase_1\": {}, \"phase_2\": {}, \"phase_3\": {\"paradox_type\": \"Antinomy\", \"n\": 13359876}}"
        :> <<"8", "3", "4", "c", "a", "d", "a", "e", "b", "2", "f", "4">>)
    )
    )
    )
    @@
    (
    (
    ("{\"user_input\": \"t\", \"s1_knowledge\": {}, \"phase_1\": {}, \"phase_2\": {}, \"phase_3\": {\"paradox_type\": \"Falsidical\", \"reasoning\": \" r \", \"contradiction_path\": [\"a\", \" \", \"b\"], \"mitigation\": \"m\"}}"
        :> <<"4", "3", "5", "7", "e", "b", "1", "6", "2", "4", "a", "3">>)
    @@
    ("{\"user_input\": \"t\", \"s1_knowledge\": {}, \"phase_1\": {}, \"phase_2\": {}, \"phase_3\": {\"paradox_type\": \"Liar\"}}"
        :> <<"e", "7", "2", "a", "6", "3", "8", "e", "2", "2", "6", "e">>)
    )
    @@
    (
    ("{\"user_input\": \"t\", \"s1_knowledge\": {}, \"phase_1\": {}, \"phase_2\": {}, \"phase_3\": {\"paradox_type\": 5}}"
        :> <<"1", "d", "f", "2", "b", "3", "d", "2", "3", "a", "3", "2">>)
    @@
    (
    ("{\"user_input\": \"t\", \"s1_knowledge\": {}, \"phase_1\": {}, \"phase_2\": {}, \"phase_3\": {\"paradox_type\": null}}"
        :> <<"5", "e", "7", "e", "d", "5", "3", "1", "7", "3", "a", "f">>)
    @@
    ("{\"user_input\": \"t\", \"s1_knowledge\": {}, \"phase_1\": {}, \"phase_2\": {}, \"phase_3\": {}}"
        :> <<"f", "0", "8", "e", "0", "0", "b", "7", "a", "0", "9", "2">>)
    )
    )
    )
    )
    )
    )
    )
    )
    )
    )

\* Line 272
Sha256Hex12(digest_src) == Sha256Hex12Table[Join(digest_src)]

\* Lines 274-286
RECURSIVE Branches(_)
Branches(branches_raw) ==
    IF branches_raw = <<>> THEN <<>>
    ELSE LET entry == Head(branches_raw)
         IN  (IF entry.t # "dict" THEN <<>>
              ELSE << JDict(<< Pair(K.name, JStr(TextOrNA(DictGet(entry.pairs, K.name, JStr(<<>>))))),
                               Pair(K.result, JStr(TextOrNA(DictGet(entry.pairs, K.result, JStr(<<>>))))),
                               Pair(K.goal_impact,
                                    JStr(TextOrNA(DictGet(entry.pairs, K.goal_impact, JStr(<<>>))))) >>) >>)
             \o Branches(Tail(branches_raw))

\* Line 305: str(phase_3.get("paradox_type", "None")).strip() or "None"
DiagnosisType(phase_3) ==
    LET text == StrStrip(DictGet(phase_3.pairs, K.paradox_type, JStr(NoneText)))
    IN  IF text # <<>> THEN text ELSE NoneText

\* detector is self: _build_report reads none of its attributes.
BuildReport(detector, user_input, s1_knowledge, phase_1, phase_2, phase_3) ==
    LET report_id == Sha256Hex12(DigestSrc(user_input, s1_knowledge, phase_1, phase_2, phase_3))
        branches_raw == DictGet(phase_2.pairs, K.branches, JNull)
        branches == IF branches_raw.t = "list" THEN Branches(branches_raw.items) ELSE <<>>
        get1(key) == DictGet(phase_1.pairs, key, JNull)
        get3(key) == DictGet(phase_3.pairs, key, JNull)
    IN  JDict(<<
          Pair(K.report_id, JStr(report_id)),
          Pair(K.logical_breakdown, JDict(<<
            Pair(K.primary_goal, JStr(StrStrip(DictGet(phase_1.pairs, K.stated_goal, JStr(<<>>))))),
            Pair(K.core_variables, StrList(Phase1ToCoreVars(phase_1))),
            Pair(K.retrieved_internal_knowledge, StrList(S1InternalKnowledgeItems(s1_knowledge))),
            Pair(K.internal_knowledge_used, StrList(AsStringList(get1(K.internal_knowledge_used)))),
            Pair(K.knowledge_gaps,
                 StrList(AsStringList(DictGet(s1_knowledge.pairs, K.knowledge_gaps, JNull)))),
            Pair(K.hidden_assumptions, StrList(AsStringList(get1(K.hidden_assumptions)))),
            Pair(K.reality_gaps, StrList(AsStringList(get1(K.reality_gaps)))) >>)),
          Pair(K.stress_test_results, JList(branches)),
          Pair(K.paradox_diagnosis, JDict(<<
            Pair(K.type, JStr(DiagnosisType(phase_3))),
            Pair(K.reasoning, JStr(StrStrip(DictGet(phase_3.pairs, K.reasoning, JStr(<<>>))))),
            Pair(K.contradiction_path, StrList(AsStringList(get3(K.contradiction_path)))) >>)),
          Pair(K.suggested_mitigation, StrList(AsStringList(get3(K.mitigation)))),
          Pair(K.raw_phases, JDict(<<
            Pair(K.s1_knowledge_retrieval, s1_knowledge),
            Pair(K.phase_1, phase_1),
            Pair(K.phase_2, phase_2),
            Pair(K.phase_3, phase_3) >>)) >>)

(***************************************************************************)
(* format_report, lines 319-406.                                           *)
(***************************************************************************)
\* bool(v), the test of "if v:" and of "v or default".
Truthy(v) ==
    CASE v.t = "null" -> FALSE
      [] v.t = "str" -> v.s # <<>>
      [] v.t = "list" -> v.items # <<>>
      [] v.t = "dict" -> v.pairs # <<>>
      [] OTHER -> v.n # 0

\* separator.join(texts)
RECURSIVE JoinWith(_, _)
JoinWith(separator, texts) ==
    IF texts = <<>> THEN <<>>
    ELSE IF Len(texts) = 1 THEN texts[1]
    ELSE LET half == Len(texts) \div 2
         IN  JoinWith(separator, SubSeq(texts, 1, half)) \o separator
             \o JoinWith(separator, SubSeq(texts, half + 1, Len(texts)))

\* mapping.get(key, default) on a report section.
Get(mapping, key, default) == DictGet(mapping.pairs, key, default)

\* Lines 331-335 and the five blocks after it: one line per item under a
\* label, or one N/A line.
ItemLines(value, bullet) ==
    IF Truthy(value)
    THEN [i \in 1..Len(value.items) |-> bullet \o PyStr(value.items[i])]
    ELSE << bullet \o NAText >>

\* Lines 327-328
CoreVariablesLine(logical) ==
    LET joined == JoinWith(<<",", " ">>, [i \in 1..Len(Get(logical, K.core_variables, JList(<<>>)).items) |->
                                       Get(logical, K.core_variables, JList(<<>>)).items[i].s])
    IN  <<"-", " ", "C", "o", "r", "e", " ", "V", "a", "r", "i", "a", "b", "l", "e", "s", ":", " ">> \o (IF joined # <<>> THEN joined ELSE NAText)

\* Lines 370-376: the three lines of the branch at position idx.
BranchLines(branch, idx) ==
    << <<"-", " ", "B", "r", "a", "n", "c", "h", " ">> \o IntToChars(idx) \o <<":", " ">>
           \o PyStr(Get(branch, K.name, JStr(<<"B", "r", "a", "n", "c", "h", " ">> \o IntToChars(idx)))),
       <<" ", " ", "R", "e", "s", "u", "l", "t", ":", " ">> \o PyStr(Get(branch, K.result, JStr(NAText))),
       <<" ", " ", "G", "o", "a", "l", " ", "I", "m", "p", "a", "c", "t", ":", " ">> \o PyStr(Get(branch, K.goal_impact, JStr(NAText))) >>

\* Lines 368-378
StressLines(branches) ==
    IF Truthy(branches)
    THEN Concat([idx \in 1..Len(branches.items) |-> BranchLines(branches.items[idx], idx)])
    ELSE << <<"-", " ", "N", "/", "A">> >>

\* Line 384
ReasoningLine(diagnosis) ==
    LET reasoning == Get(diagnosis, K.reasoning, JStr(<<>>))
    IN  <<"-", " ", "R", "e", "a", "s", "o", "n", "i", "n", "g", ":", " ">> \o (IF Truthy(reasoning) THEN PyStr(reasoning) ELSE NAText)

\* The headings of the four sections, lines 324, 366, 382 and 394.
Headings ==
    << <<"1", ".", " ", "L", "O", "G", "I", "C", "A", "L", " ", "B", "R", "E", "A", "K", "D", "O", "W", "N">>,
       <<"2", ".", " ", "S", "T", "R", "E", "S", "S", " ", "T", "E", "S", "T", " ", "R", "E", "S", "U", "L", "T", "S", " ", "(", "P", "h", "a", "s", "e", " ", "I", "I", ")">>,
       <<"3", ".", " ", "P", "A", "R", "A", "D", "O", "X", " ", "D", "I", "A", "G", "N", "O", "S", "I", "S", " ", "(", "P", "h", "a", "s", "e", " ", "I", "I", "I", ")">>,
       <<"4", ".", " ", "S", "U", "G", "G", "E", "S", "T", "E", "D", " ", "M", "I", "T", "I", "G", "A", "T", "I", "O", "N">> >>

\* The list lines, in the order format_report appends them.
ReportLines(report) ==
    LET logical == Get(report, K.logical_breakdown, JDict(<<>>))
        diagnosis == Get(report, K.paradox_diagnosis, JDict(<<>>))
        none == JList(<<>>)
    IN  << <<"R", "E", "P", "O", "R", "T", " ", "I", "D", ":", " ">> \o PyStr(Get(report, K.report_id, JStr(NAText))),
           <<>>,
           Headings[1],
           <<"-", " ", "P", "r", "i", "m", "a", "r", "y", " ", "G", "o", "a", "l", ":", " ">> \o PyStr(Get(logical, K.primary_goal, JStr(<<>>))),
           CoreVariablesLine(logical),
           <<"-", " ", "R", "e", "t", "r", "i", "e", "v", "e", "d", " ", "I", "n", "t", "e", "r", "n", "a", "l", " ", "K", "n", "o", "w", "l", "e", "d", "g", "e", " ", "(", "S", "1", ")", ":">> >>
        \o ItemLines(Get(logical, K.retrieved_internal_knowledge, none), <<" ", " ", "-", " ">>)
        \o << <<"-", " ", "I", "n", "t", "e", "r", "n", "a", "l", " ", "K", "n", "o", "w", "l", "e", "d", "g", "e", " ", "U", "s", "e", "d", " ", "(", "P", "h", "a", "s", "e", " ", "I", ")", ":">> >>
        \o ItemLines(Get(logical, K.internal_knowledge_used, none), <<" ", " ", "-", " ">>)
        \o << <<"-", " ", "K", "n", "o", "w", "l", "e", "d", "g", "e", " ", "G", "a", "p", "s", ":">> >>
        \o ItemLines(Get(logical, K.knowledge_gaps, none), <<" ", " ", "-", " ">>)
        \o << <<"-", " ", "H", "i", "d", "d", "e", "n", " ", "A", "s", "s", "u", "m", "p", "t", "i", "o", "n", "s", ":">> >>
        \o ItemLines(Get(logical, K.hidden_assumptions, none), <<" ", " ", "-", " ">>)
        \o << <<"-", " ", "R", "e", "a", "l", "i", "t", "y", " ", "G", "a", "p", "s", ":">> >>
        \o ItemLines(Get(logical, K.reality_gaps, none), <<" ", " ", "-", " ">>)
        \o << <<>>, Headings[2] >>
        \o StressLines(Get(report, K.stress_test_results, none))
        \o << <<>>,
              Headings[3],
              <<"-", " ", "T", "y", "p", "e", ":", " ">> \o PyStr(Get(diagnosis, K.type, JStr(NoneText))),
              ReasoningLine(diagnosis),
              <<"-", " ", "C", "o", "n", "t", "r", "a", "d", "i", "c", "t", "i", "o", "n", " ", "P", "a", "t", "h", ":">> >>
        \o ItemLines(Get(diagnosis, K.contradiction_path, none), <<" ", " ", "-", " ">>)
        \o << <<>>, Headings[4] >>
        \o ItemLines(Get(report, K.suggested_mitigation, none), <<"-", " ">>)

\* Line 406: "\n".join(lines)
FormatReport(report) == JoinWith(<<"\n">>, ReportLines(report))

(***************************************************************************)
(* ParadoxDetector: the four stages of analyze, lines 193-251.             *)
(***************************************************************************)
\* Lines 194-197: the stages in the order analyze runs them.
StageOrder == << "S1", "Phase1", "Phase2", "Phase3" >>

\* One argument of template.format.
Arg(name, text) == [name |-> name, text |-> text]

\* A variant that hands the Phase 1 result to Phase 3 as phase_2_json too.
RenderPromptPhase1AsPhase2(stage, detector, user_input, results) ==
    LET language == Arg("output_language", detector.output_language)
        statement == Arg("user_input", user_input)
    IN  CASE stage = "S1" ->
               [template |-> "S1_KNOWLEDGE_TEMPLATE", args |-> << language, statement >>]
          [] stage = "Phase1" ->
               [template |-> "PHASE_1_TEMPLATE",
                args |-> << language, Arg("s1_knowledge_json", DumpsIndent(results[1], 0)),
                            statement >>]
          [] stage = "Phase2" ->
               [template |-> "PHASE_2_TEMPLATE",
                args |-> << language, Arg("phase_1_json", DumpsIndent(results[2], 0)),
                            statement >>]
          [] stage = "Phase3" ->
               [template |-> "PHASE_3_TEMPLATE",
                args |-> << language, Arg("phase_1_json", DumpsIndent(results[2], 0)),
                            Arg("phase_2_json", DumpsIndent(results[2], 0)), statement >>]

\* Lines 207-210, 217-224, 230-234 and 244-249: the template of the stage and
\* the arguments it is formatted with; results holds the results so far.
RenderPrompt(stage, detector, user_input, results) ==
    LET language == Arg("output_language", detector.output_language)
        statement == Arg("user_input", user_input)
    IN  CASE stage = "S1" ->
               [template |-> "S1_KNOWLEDGE_TEMPLATE", args |-> << language, statement >>]
          [] stage = "Phase1" ->
               [template |-> "PHASE_1_TEMPLATE",
                args |-> << language, Arg("s1_knowledge_json", DumpsIndent(results[1], 0)),
                            statement >>]
          [] stage = "Phase2" ->
               [template |-> "PHASE_2_TEMPLATE",
                args |-> << language, Arg("phase_1_json", DumpsIndent(results[2], 0)),
                            statement >>]
          [] stage = "Phase3" ->
               [template |-> "PHASE_3_TEMPLATE",
                args |-> << language, Arg("phase_1_json", DumpsIndent(results[2], 0)),
                            Arg("phase_2_json", DumpsIndent(results[3], 0)), statement >>]

(***************************************************************************)
(* The prompt templates of prompts.py and str.format, which fills them.    *)
(***************************************************************************)
\* The templates after .strip(), each as its lines.
Templates ==
    [
      S1_KNOWLEDGE_TEMPLATE |-> <<
        <<"S", "1", ":", " ", "I", "n", "t", "e", "r", "n", "a", "l", " ", "K", "n", "o", "w",
          "l", "e", "d", "g", "e", " ", "R", "e", "t", "r", "i", "e", "v", "a", "l", ".">>,
        <<>>,
        <<"T", "a", "s", "k", ":">>,
        <<"-", " ", "R", "e", "t", "r", "i", "e", "v", "e", " ", "i", "n", "t", "e", "r", "n",
          "a", "l", " ", "d", "o", "m", "a", "i", "n", " ", "k", "n", "o", "w", "l", "e", "d",
          "g", "e", " ", "r", "e", "l", "e", "v", "a", "n", "t", " ", "t", "o", " ", "t", "h",
          "e", " ", "u", "s", "e", "r", "'", "s", " ", "s", "t", "a", "t", "e", "m", "e", "n",
          "t", ".">>,
        <<"-", " ", "K", "n", "o", "w", "l", "e", "d", "g", "e", " ", "m", "u", "s", "t", " ",
          "c", "o", "m", "e", " ", "f", "r", "o", "m", " ", "y", "o", "u", "r", " ", "i", "n",
          "t", "e", "r", "n", "a", "l", " ", "m", "o", "d", "e", "l", " ", "k", "n", "o", "w",
          "l", "e", "d", "g", "e", " ", "b", "a", "s", "e", ".">>,
        <<"-", " ", "F", "o", "c", "u", "s", " ", "o", "n", " ", "m", "e", "c", "h", "a", "n",
          "i", "s", "m", "s", ",", " ", "c", "o", "n", "s", "t", "r", "a", "i", "n", "t", "s",
          ",", " ", "a", "n", "d", " ", "k", "n", "o", "w", "n", " ", "t", "r", "a", "d", "e",
          "-", "o", "f", "f", "s", " ", "t", "h", "a", "t", " ", "c", "a", "n", " ", "a", "f",
          "f", "e", "c", "t", " ", "v", "a", "l", "i", "d", "i", "t", "y", ".">>,
        <<"-", " ", "K", "e", "e", "p", " ", "e", "a", "c", "h", " ", "i", "t", "e", "m", " ",
          "a", "t", "o", "m", "i", "c", " ", "a", "n", "d", " ", "r", "e", "u", "s", "a", "b",
          "l", "e", " ", "f", "o", "r", " ", "d", "o", "w", "n", "s", "t", "r", "e", "a", "m",
          " ", "l", "o", "g", "i", "c", " ", "a", "n", "a", "l", "y", "s", "i", "s", ".">>,
        <<>>,
        <<"R", "e", "t", "u", "r", "n", " ", "t", "h", "i", "s", " ", "e", "x", "a", "c", "t",
          " ", "J", "S", "O", "N", " ", "s", "c", "h", "e", "m", "a", ":">>,
        <<"{", "{">>,
        <<" ", " ", "\"", "i", "n", "t", "e", "r", "n", "a", "l", "_", "k", "n", "o", "w", "l",
          "e", "d", "g", "e", "\"", ":", " ", "[">>,
        <<" ", " ", " ", " ", "{", "{">>,
        <<" ", " ", " ", " ", " ", " ", "\"", "i", "t", "e", "m", "\"", ":", " ", "\"", "s",
          "t", "r", "i", "n", "g", "\"", ",">>,
        <<" ", " ", " ", " ", " ", " ", "\"", "r", "e", "l", "e", "v", "a", "n", "c", "e",
          "\"", ":", " ", "\"", "s", "t", "r", "i", "n", "g", "\"", ",">>,
        <<" ", " ", " ", " ", " ", " ", "\"", "c", "o", "n", "f", "i", "d", "e", "n", "c", "e",
          "\"", ":", " ", "\"", "h", "i", "g", "h", " ", "|", " ", "m", "e", "d", "i", "u",
          "m", " ", "|", " ", "l", "o", "w", "\"">>,
        <<" ", " ", " ", " ", "}", "}">>,
        <<" ", " ", "]", ",">>,
        <<" ", " ", "\"", "k", "n", "o", "w", "l", "e", "d", "g", "e", "_", "g", "a", "p", "s",
          "\"", ":", " ", "[", "\"", "s", "t", "r", "i", "n", "g", "\"", "]">>,
        <<"}", "}">>,
        <<>>,
        <<"O", "u", "t", "p", "u", "t", " ", "l", "a", "n", "g", "u", "a", "g", "e", ":", " ",
          "{", "o", "u", "t", "p", "u", "t", "_", "l", "a", "n", "g", "u", "a", "g", "e", "}">>,
        <<>>,
        <<"U", "s", "e", "r", " ", "s", "t", "a", "t", "e", "m", "e", "n", "t", ":">>,
        <<"{", "u", "s", "e", "r", "_", "i", "n", "p", "u", "t", "}">> >>,
      PHASE_1_TEMPLATE |-> <<
        <<"P", "h", "a", "s", "e", " ", "I", ":", " ", "P", "r", "e", "m", "i", "s", "e", " ",
          "E", "x", "t", "r", "a", "c", "t", "i", "o", "n", " ", "&", " ", "A", "x", "i", "o",
          "m", "a", "t", "i", "z", "a", "t", "i", "o", "n", ".">>,
        <<>>,
        <<"T", "a", "s", "k", ":">>,
        <<"-", " ", "F", "i", "r", "s", "t", ",", " ", "r", "e", "a", "d", " ", "a", "n", "d",
          " ", "t", "r", "u", "s", "t", " ", "t", "h", "e", " ", "p", "r", "o", "v", "i", "d",
          "e", "d", " ", "S", "1", " ", "i", "n", "t", "e", "r", "n", "a", "l", " ", "k", "n",
          "o", "w", "l", "e", "d", "g", "e", " ", "r", "e", "t", "r", "i", "e", "v", "a", "l",
          ".">>,
        <<"-", " ", "R", "e", "a", "d", " ", "t", "h", "e", " ", "u", "s", "e", "r", "'", "s",
          " ", "s", "t", "a", "t", "e", "m", "e", "n", "t", ".">>,
        <<"-", " ", "I", "d", "e", "n", "t", "i", "f", "y", " ", "t", "h", "e", " ", "e", "x",
          "p", "l", "i", "c", "i", "t", " ", "g", "o", "a", "l", ".">>,
        <<"-", " ", "I", "d", "e", "n", "t", "i", "f", "y", " ", "c", "o", "r", "e", " ", "v",
          "a", "r", "i", "a", "b", "l", "e", "s", ".">>,
        <<"-", " ", "I", "d", "e", "n", "t", "i", "f", "y", " ", "h", "i", "d", "d", "e", "n",
          " ", "a", "s", "s", "u", "m", "p", "t", "i", "o", "n", "s", " ", "n", "e", "e", "d",
          "e", "d", " ", "f", "o", "r", " ", "s", "u", "c", "c", "e", "s", "s", ".">>,
        <<"-", " ", "I", "d", "e", "n", "t", "i", "f", "y", " ", "r", "e", "a", "l", "i", "t",
          "y", " ", "g", "a", "p", "s", " ", "b", "e", "t", "w", "e", "e", "n", " ", "s", "t",
          "a", "t", "e", "m", "e", "n", "t", " ", "a", "n", "d", " ", "k", "n", "o", "w", "n",
          " ", "s", "y", "s", "t", "e", "m", " ", "b", "e", "h", "a", "v", "i", "o", "r", ".">>,
        <<"-", " ", "E", "x", "p", "l", "i", "c", "i", "t", "l", "y", " ", "s", "t", "a", "t",
          "e", " ", "w", "h", "i", "c", "h", " ", "S", "1", " ", "i", "n", "t", "e", "r", "n",
          "a", "l", " ", "k", "n", "o", "w", "l", "e", "d", "g", "e", " ", "i", "t", "e", "m",
          "s", " ", "a", "r", "e", " ", "u", "s", "e", "d", ".">>,
        <<>>,
        <<"R", "e", "t", "u", "r", "n", " ", "t", "h", "i", "s", " ", "e", "x", "a", "c", "t",
          " ", "J", "S", "O", "N", " ", "s", "c", "h", "e", "m", "a", ":">>,
        <<"{", "{">>,
        <<" ", " ", "\"", "s", "t", "a", "t", "e", "d", "_", "g", "o", "a", "l", "\"", ":",
          " ", "\"", "s", "t", "r", "i", "n", "g", "\"", ",">>,
        <<" ", " ", "\"", "c", "o", "r", "e", "_", "v", "a", "r", "i", "a", "b", "l", "e", "s",
          "\"", ":", " ", "[", "\"", "s", "t", "r", "i", "n", "g", "\"", "]", ",">>,
        <<" ", " ", "\"", "i", "n", "t", "e", "r", "n", "a", "l", "_", "k", "n", "o", "w", "l",
          "e", "d", "g", "e", "_", "u", "s", "e", "d", "\"", ":", " ", "[", "\"", "s", "t",
          "r", "i", "n", "g", "\"", "]", ",">>,
        <<" ", " ", "\"", "h", "i", "d", "d", "e", "n", "_", "a", "s", "s", "u", "m", "p", "t",
          "i", "o", "n", "s", "\"", ":", " ", "[", "\"", "s", "t", "r", "i", "n", "g", "\"",
          "]", ",">>,
        <<" ", " ", "\"", "r", "e", "a", "l", "i", "t", "y", "_", "g", "a", "p", "s", "\"",
          ":", " ", "[", "\"", "s", "t", "r", "i", "n", "g", "\"", "]">>,
        <<"}", "}">>,
        <<>>,
        <<"O", "u", "t", "p", "u", "t", " ", "l", "a", "n", "g", "u", "a", "g", "e", ":", " ",
          "{", "o", "u", "t", "p", "u", "t", "_", "l", "a", "n", "g", "u", "a", "g", "e", "}">>,
        <<>>,
        <<"S", "1", " ", "i", "n", "t", "e", "r", "n", "a", "l", " ", "k", "n", "o", "w", "l",
          "e", "d", "g", "e", " ", "r", "e", "t", "r", "i", "e", "v", "a", "l", ":">>,
        <<"{", "s", "1", "_", "k", "n", "o", "w", "l", "e", "d", "g", "e", "_", "j", "s", "o",
          "n", "}">>,
        <<>>,
        <<"U", "s", "e", "r", " ", "s", "t", "a", "t", "e", "m", "e", "n", "t", ":">>,
        <<"{", "u", "s", "e", "r", "_", "i", "n", "p", "u", "t", "}">> >>,
      PHASE_2_TEMPLATE |-> <<
        <<"P", "h", "a", "s", "e", " ", "I", "I", ":", " ", "M", "u", "l", "t", "i", "-", "D",
          "i", "m", "e", "n", "s", "i", "o", "n", "a", "l", " ", "E", "x", "p", "a", "n", "s",
          "i", "o", "n", " ", "(", "c", "o", "n", "s", "t", "r", "a", "i", "n", "e", "d", " ",
          "T", "r", "e", "e", " ", "o", "f", " ", "T", "h", "o", "u", "g", "h", "t", "s", ")",
          ".">>,
        <<>>,
        <<"T", "a", "s", "k", ":">>,
        <<"-", " ", "I", "n", "f", "e", "r", " ", "m", "u", "l", "t", "i", "p", "l", "e", " ",
          "d", "i", "f", "f", "e", "r", "e", "n", "t", " ", "o", "u", "t", "c", "o", "m", "e",
          "s", " ", "c", "a", "u", "s", "e", "d", " ", "b", "y", " ", "t", "h", "e", " ", "p",
          "r", "e", "m", "i", "s", "e", ".">>,
        <<"-", " ", "K", "e", "e", "p", " ", "e", "a", "c", "h", " ", "b", "r", "a", "n", "c",
          "h", " ", "l", "o", "g", "i", "c", "a", "l", "l", "y", " ", "d", "i", "s", "t", "i",
          "n", "c", "t", ".">>,
        <<"-", " ", "F", "o", "c", "u", "s", " ", "o", "n", " ", "c", "o", "n", "s", "e", "q",
          "u", "e", "n", "c", "e", "s", " ", "a", "n", "d", " ", "i", "m", "p", "a", "c", "t",
          " ", "o", "n", " ", "t", "h", "e", " ", "s", "t", "a", "t", "e", "d", " ", "g", "o",
          "a", "l", ".">>,
        <<"-", " ", "E", "v", "e", "r", "y", " ", "b", "r", "a", "n", "c", "h", " ", "m", "u",
          "s", "t", " ", "i", "n", "c", "l", "u", "d", "e", " ", "b", "o", "t", "h", " ",
          Backtick, "r", "e", "s", "u", "l", "t", Backtick, " ", "a", "n", "d", " ", Backtick,
          "g", "o", "a", "l", "_", "i", "m", "p", "a", "c", "t", Backtick, ".", " ", "D", "o",
          " ", "n", "o", "t", " ", "o", "m", "i", "t", " ", "f", "i", "e", "l", "d", "s", ".">>,
        <<>>,
        <<"R", "e", "t", "u", "r", "n", " ", "t", "h", "i", "s", " ", "e", "x", "a", "c", "t",
          " ", "J", "S", "O", "N", " ", "s", "c", "h", "e", "m", "a", ":">>,
        <<"{", "{">>,
        <<" ", " ", "\"", "b", "r", "a", "n", "c", "h", "e", "s", "\"", ":", " ", "[">>,
        <<" ", " ", " ", " ", "{", "{">>,
        <<" ", " ", " ", " ", " ", " ", "\"", "n", "a", "m", "e", "\"", ":", " ", "\"", "s",
          "t", "r", "i", "n", "g", "\"", ",">>,
        <<" ", " ", " ", " ", " ", " ", "\"", "r", "e", "s", "u", "l", "t", "\"", ":", " ",
          "\"", "s", "t", "r", "i", "n", "g", "\"", ",">>,
        <<" ", " ", " ", " ", " ", " ", "\"", "g", "o", "a", "l", "_", "i", "m", "p", "a", "c",
          "t", "\"", ":", " ", "\"", "s", "t", "r", "i", "n", "g", "\"">>,
        <<" ", " ", " ", " ", "}", "}">>,
        <<" ", " ", "]">>,
        <<"}", "}">>,
        <<>>,
        <<"O", "u", "t", "p", "u", "t", " ", "l", "a", "n", "g", "u", "a", "g", "e", ":", " ",
          "{", "o", "u", "t", "p", "u", "t", "_", "l", "a", "n", "g", "u", "a", "g", "e", "}">>,
        <<>>,
        <<"P", "h", "a", "s", "e", " ", "I", " ", "r", "e", "s", "u", "l", "t", ":">>,
        <<"{", "p", "h", "a", "s", "e", "_", "1", "_", "j", "s", "o", "n", "}">>,
        <<>>,
        <<"U", "s", "e", "r", " ", "s", "t", "a", "t", "e", "m", "e", "n", "t", ":">>,
        <<"{", "u", "s", "e", "r", "_", "i", "n", "p", "u", "t", "}">> >>,
      PHASE_3_TEMPLATE |-> <<
        <<"P", "h", "a", "s", "e", " ", "I", "I", "I", ":", " ", "C", "o", "n", "t", "r", "a",
          "d", "i", "c", "t", "i", "o", "n", " ", "C", "a", "t", "c", "h", "i", "n", "g", " ",
          "&", " ", "M", "i", "t", "i", "g", "a", "t", "i", "o", "n", ".">>,
        <<>>,
        <<"C", "l", "a", "s", "s", "i", "f", "y", " ", "p", "a", "r", "a", "d", "o", "x", " ",
          "t", "y", "p", "e", " ", "b", "y", " ", "p", "r", "o", "t", "o", "c", "o", "l", ":">>,
        <<"-", " ", "A", "n", "t", "i", "n", "o", "m", "y", ":", " ", "G", "o", "a", "l", " ",
          "X", " ", "i", "m", "p", "l", "i", "e", "s", " ", "d", "e", "s", "t", "r", "u", "c",
          "t", "i", "o", "n", " ", "o", "f", " ", "G", "o", "a", "l", " ", "X", " ", "(", "s",
          "e", "l", "f", "-", "c", "o", "n", "t", "r", "a", "d", "i", "c", "t", "i", "o", "n",
          ")", ".">>,
        <<"-", " ", "F", "a", "l", "s", "i", "d", "i", "c", "a", "l", ":", " ", "L", "o", "o",
          "k", "s", " ", "v", "a", "l", "i", "d", " ", "b", "u", "t", " ", "d", "e", "p", "e",
          "n", "d", "s", " ", "o", "n", " ", "f", "a", "l", "s", "e", " ", "h", "i", "d", "d",
          "e", "n", " ", "a", "s", "s", "u", "m", "p", "t", "i", "o", "n", ".">>,
        <<"-", " ", "V", "e", "r", "i", "d", "i", "c", "a", "l", ":", " ", "C", "o", "u", "n",
          "t", "e", "r", "i", "n", "t", "u", "i", "t", "i", "v", "e", " ", "b", "u", "t", " ",
          "t", "e", "c", "h", "n", "i", "c", "a", "l", "l", "y", " ", "v", "a", "l", "i", "d",
          " ", "t", "r", "a", "d", "e", "-", "o", "f", "f", ".">>,
        <<"-", " ", "N", "o", "n", "e", ":", " ", "n", "o", " ", "p", "a", "r", "a", "d", "o",
          "x", " ", "d", "e", "t", "e", "c", "t", "e", "d", " ", "u", "n", "d", "e", "r", " ",
          "t", "e", "s", "t", "e", "d", " ", "b", "r", "a", "n", "c", "h", "e", "s", ".">>,
        <<>>,
        <<"R", "e", "t", "u", "r", "n", " ", "t", "h", "i", "s", " ", "e", "x", "a", "c", "t",
          " ", "J", "S", "O", "N", " ", "s", "c", "h", "e", "m", "a", ":">>,
        <<"{", "{">>,
        <<" ", " ", "\"", "p", "a", "r", "a", "d", "o", "x", "_", "t", "y", "p", "e", "\"",
          ":", " ", "\"", "A", "n", "t", "i", "n", "o", "m", "y", " ", "|", " ", "F", "a", "l",
          "s", "i", "d", "i", "c", "a", "l", " ", "|", " ", "V", "e", "r", "i", "d", "i", "c",
          "a", "l", " ", "|", " ", "N", "o", "n", "e", "\"", ",">>,
        <<" ", " ", "\"", "r", "e", "a", "s", "o", "n", "i", "n", "g", "\"", ":", " ", "\"",
          "s", "t", "r", "i", "n", "g", "\"", ",">>,
        <<" ", " ", "\"", "c", "o", "n", "t", "r", "a", "d", "i", "c", "t", "i", "o", "n", "_",
          "p", "a", "t", "h", "\"", ":", " ", "[", "\"", "s", "t", "r", "i", "n", "g", "\"",
          "]", ",">>,
        <<" ", " ", "\"", "m", "i", "t", "i", "g", "a", "t", "i", "o", "n", "\"", ":", " ",
          "[", "\"", "s", "t", "r", "i", "n", "g", "\"", "]">>,
        <<"}", "}">>,
        <<>>,
        <<"O", "u", "t", "p", "u", "t", " ", "l", "a", "n", "g", "u", "a", "g", "e", ":", " ",
          "{", "o", "u", "t", "p", "u", "t", "_", "l", "a", "n", "g", "u", "a", "g", "e", "}">>,
        <<>>,
        <<"P", "h", "a", "s", "e", " ", "I", " ", "r", "e", "s", "u", "l", "t", ":">>,
        <<"{", "p", "h", "a", "s", "e", "_", "1", "_", "j", "s", "o", "n", "}">>,
        <<>>,
        <<"P", "h", "a", "s", "e", " ", "I", "I", " ", "r", "e", "s", "u", "l", "t", ":">>,
        <<"{", "p", "h", "a", "s", "e", "_", "2", "_", "j", "s", "o", "n", "}">>,
        <<>>,
        <<"U", "s", "e", "r", " ", "s", "t", "a", "t", "e", "m", "e", "n", "t", ":">>,
        <<"{", "u", "s", "e", "r", "_", "i", "n", "p", "u", "t", "}">> >> ]

\* The braces of a line, and the first of a set of indices.
Braces(text) == {i \in 1..Len(text) : text[i] \in {"{", "}"}}

First(indices) == CHOOSE i \in indices : \A j \in indices : i <= j

\* str.format on one line, from brace to brace: {{ and }} give one brace,
\* {name} gives the argument of that name.  (A single } makes format raise
\* ValueError; no template holds one.)
RECURSIVE FormatLine(_, _)
FormatLine(text, args) ==
    IF Braces(text) = {} THEN text
    ELSE LET j == First(Braces(text))
             before == SubSeq(text, 1, j - 1)
         IN  IF j < Len(text) /\ text[j + 1] = text[j]
             THEN before \o <<text[j]>> \o FormatLine(SubSeq(text, j + 2, Len(text)), args)
             ELSE LET close == First({i \in Braces(text) : i > j /\ text[i] = "}"})
                      name == Join(SubSeq(text, j + 1, close - 1))
                      arg == CHOOSE a \in {args[i] : i \in 1..Len(args)} : a.name = name
                  IN  before \o arg.text \o FormatLine(SubSeq(text, close + 1, Len(text)), args)

\* template.format(**args): the text of the prompt.
PromptText(prompt) ==
    LET lines == Templates[prompt.template]
    IN  JoinWith(<<"\n">>, [i \in 1..Len(lines) |-> FormatLine(lines[i], prompt.args)])

\* The call self.client.chat(system_prompt=BASE_SYSTEM_PROMPT, user_prompt=prompt).
ChatCall(stage, prompt) ==
    [stage |-> stage, system_prompt |-> "BASE_SYSTEM_PROMPT", user_prompt |-> prompt]

\* An error of chat, as the outcome of analyze.
StageRaised(kind) == [kind |-> kind, val |-> JNull, text |-> <<>>]

\* A variant in which no error ends the stage.
RaisedNever(outcome) == FALSE

\* Lines 211-212 and their like: chat or _extract_json_dict raised; neither
\* _run_* nor analyze has an except clause, so the error leaves analyze.
Raised(outcome) == outcome.kind # "return"

\* A variant of the order that asks Phase 1 again in the place of Phase 2.
StageAtPhase1Twice(k) == << "S1", "Phase1", "Phase1", "Phase3" >>[k]

\* The stage of the k-th chat call of analyze.
StageAt(k) == StageOrder[k]

\* The body an endpoint answers with when the completion is content.
CompletionBody(content) ==
    JsonDumps(JDict(<< Pair(K.choices,
        JList(<< JDict(<< Pair(K.message, JDict(<< Pair(K.content, content) >>)) >>) >>)) >>))

\* The answers the stages of analyze are given: two completions holding an
\* object, one without any, one whose content is null, and two failures of
\* the request.
StageAnswers ==
    { Body(CompletionBody(JStr(<<" ">> \o ObjectText \o <<"\n">>))),
      Body(CompletionBody(JStr(<<"{", "}">>))),
      Body(CompletionBody(JStr(ProseText))),
      Body(CompletionBody(JNull)),
      HttpError,
      UrlError }

Languages == { <<"C", "h", "i", "n", "e", "s", "e">>, <<"E", "n", "g", "l", "i", "s", "h">> }

\* The detectors: ParadoxDetector(client, output_language=...), the client
\* being given by its configuration.
Detectors == [client : Configs, output_language : Languages]

SomeDetector == [client |-> SomeConfig, output_language |-> <<"C", "h", "i", "n", "e", "s", "e">>]

AnIdle ==
    /\ an_pc = "call"
    /\ an_user_input = <<"s">>
    /\ an_calls = <<>>
    /\ an_answers = <<>>
    /\ an_raw = ChatRaised("none")
    /\ an_results = <<>>
    /\ an_outcome = NoResult

\* The next stage renders its prompt and calls chat, which raises at once
\* when the key is empty (lines 42-43) and sends its request otherwise.
AnCall ==
    /\ an_pc = "call"
    /\ LET stage == StageAt(Len(an_results) + 1)
       IN  an_calls' = Append(an_calls,
               ChatCall(stage, RenderPrompt(stage, an_detector, an_user_input, an_results)))
    /\ IF an_detector.client.api_key = <<>>
       THEN /\ an_outcome' = StageRaised("AgentAPIError")
            /\ an_pc' = "raised"
       ELSE /\ an_pc' = "wait"
            /\ UNCHANGED an_outcome
    /\ UNCHANGED <<an_detector, an_user_input, an_answers, an_raw, an_results>>
    /\ UNCHANGED <<ex_vars, ch_vars, rp_vars, fm_vars, nz_vars, cc_vars, mn_vars>>

\* raw = self.client.chat(...): the network answers and chat returns the
\* completion or raises.
AnReceive ==
    /\ an_pc = "wait"
    /\ \E transport \in StageAnswers :
        /\ an_answers' = Append(an_answers, transport)
        /\ an_raw' = Receive(transport)
    /\ IF Raised(an_raw')
       THEN /\ an_outcome' = StageRaised(an_raw'.kind)
            /\ an_pc' = "raised"
       ELSE /\ an_pc' = "extract"
            /\ UNCHANGED an_outcome
    /\ UNCHANGED <<an_detector, an_user_input, an_calls, an_results>>
    /\ UNCHANGED <<ex_vars, ch_vars, rp_vars, fm_vars, nz_vars, cc_vars, mn_vars>>

\* return _extract_json_dict(raw): the result of the stage, or ValueError.
AnExtract ==
    /\ an_pc = "extract"
    /\ LET extracted == ExtractJsonDict(an_raw.text)
       IN  IF Raised(extracted)
           THEN /\ an_outcome' = extracted
                /\ an_pc' = "raised"
                /\ UNCHANGED an_results
           ELSE /\ an_results' = Append(an_results, extracted.val)
                /\ an_pc' = IF Len(an_results) + 1 = Len(StageOrder) THEN "build" ELSE "call"
                /\ UNCHANGED an_outcome
    /\ UNCHANGED <<an_detector, an_user_input, an_calls, an_answers, an_raw>>
    /\ UNCHANGED <<ex_vars, ch_vars, rp_vars, fm_vars, nz_vars, cc_vars, mn_vars>>

\* Lines 198-204: return self._build_report(...)
AnBuild ==
    /\ an_pc = "build"
    /\ an_outcome' = Returned(BuildReport(an_detector, an_user_input, an_results[1],
                                          an_results[2], an_results[3], an_results[4]))
    /\ an_pc' = "done"
    /\ UNCHANGED <<an_detector, an_user_input, an_calls, an_answers, an_raw, an_results>>
    /\ UNCHANGED <<ex_vars, ch_vars, rp_vars, fm_vars, nz_vars, cc_vars, mn_vars>>

(***************************************************************************)
(* The statements and stage results _build_report is run on.  Two of the  *)
(* Phase 3 results differ only in n, 10106858 and 13359876.                *)
(***************************************************************************)
Statements == { <<"s">>, <<"t">> }

\* Results of the S1 stage.
S1Pool ==
    { JDict(<<>>),
      JDict(<<Pair(K.knowledge_gaps, JList(<<JStr(<<"g">>)>>))>>) }

\* Results of Phase 1.
Phase1Pool ==
    { JDict(<<>>),
      JDict(<<Pair(K.stated_goal, JStr(<<" ", "g", " ">>))>>) }

\* Results of Phase 2.
Phase2Pool ==
    { JDict(<<>>),
      JDict(<<Pair(K.branches, JList(<<JDict(<<Pair(K.name, JStr(<<"b">>))>>), JStr(<<"x">>)>>))>>) }

\* Results of Phase 3.
Phase3Pool ==
    { JDict(<<>>),
      JDict(<<Pair(K.paradox_type, JStr(<<"A", "n", "t", "i", "n", "o", "m", "y">>)), Pair(<<"n">>, JInt(10106858))>>),
      JDict(<<Pair(<<"n">>, JInt(10106858)), Pair(K.paradox_type, JStr(<<"A", "n", "t", "i", "n", "o", "m", "y">>))>>),
      JDict(<<Pair(K.paradox_type, JStr(<<"A", "n", "t", "i", "n", "o", "m", "y">>)), Pair(<<"n">>, JInt(13359876))>>),
      JDict(<<Pair(K.paradox_type, JStr(<<" ", "V", "e", "r", "i", "d", "i", "c", "a", "l", " ">>))>>),
      JDict(<<Pair(K.paradox_type, JStr(<<"L", "i", "a", "r">>))>>),
      JDict(<<Pair(K.paradox_type, JStr(<<" ">>))>>),
      JDict(<<Pair(K.paradox_type, JNull)>>),
      JDict(<<Pair(K.paradox_type, JInt(5))>>),
      JDict(<<Pair(K.paradox_type, JStr(<<"F", "a", "l", "s", "i", "d", "i", "c", "a", "l">>)), Pair(K.reasoning, JStr(<<" ", "r", " ">>)), Pair(K.contradiction_path, JList(<<JStr(<<"a">>), JStr(<<" ">>), JStr(<<"b">>)>>)), Pair(K.mitigation, JStr(<<"m">>))>>) }

(***************************************************************************)
(* Two builds of a report: the second on inputs that differ from those of  *)
(* the first in at most one of the five, or only in the order of the keys. *)
(***************************************************************************)
NoBuild ==
    [built |-> FALSE, detector |-> SomeDetector, user_input |-> <<>>, s1_knowledge |-> JNull,
     phase_1 |-> JNull, phase_2 |-> JNull, phase_3 |-> JNull, report |-> JNull]

\* detector._build_report(user_input, s1_knowledge, phase_1, phase_2, phase_3)
Build(detector, user_input, s1_knowledge, phase_1, phase_2, phase_3) ==
    [built |-> TRUE, detector |-> detector, user_input |-> user_input,
     s1_knowledge |-> s1_knowledge, phase_1 |-> phase_1, phase_2 |-> phase_2,
     phase_3 |-> phase_3,
     report |-> BuildReport(detector, user_input, s1_knowledge, phase_1, phase_2, phase_3)]

\* How many of the five inputs of build b differ from the given ones.
Changed(b, user_input, s1_knowledge, phase_1, phase_2, phase_3) ==
    (IF b.user_input = user_input THEN 0 ELSE 1)
    + (IF PyEq(b.s1_knowledge, s1_knowledge) THEN 0 ELSE 1)
    + (IF PyEq(b.phase_1, phase_1) THEN 0 ELSE 1)
    + (IF PyEq(b.phase_2, phase_2) THEN 0 ELSE 1)
    + (IF PyEq(b.phase_3, phase_3) THEN 0 ELSE 1)

\* The detectors of the builds: they differ in the output language and in the
\* configuration of the client.
BuildDetectors ==
    { SomeDetector,
      [client |-> [api_key |-> <<"k">>, default_temperature |-> 7], output_language |-> <<"E", "n", "g", "l", "i", "s", "h">>] }

RpIdle ==
    /\ rp_first = NoBuild
    /\ rp_second = NoBuild

RpBuildFirst ==
    /\ ~rp_first.built
    /\ \E detector \in BuildDetectors, user_input \in Statements, s1_knowledge \in S1Pool,
          phase_1 \in Phase1Pool, phase_2 \in Phase2Pool, phase_3 \in Phase3Pool :
        rp_first' = Build(detector, user_input, s1_knowledge, phase_1, phase_2, phase_3)
    /\ UNCHANGED rp_second
    /\ UNCHANGED <<ex_vars, ch_vars, fm_vars, an_vars, nz_vars, cc_vars, mn_vars>>

RpBuildSecond ==
    /\ rp_first.built
    /\ ~rp_second.built
    /\ \E detector \in BuildDetectors, user_input \in Statements, s1_knowledge \in S1Pool,
          phase_1 \in Phase1Pool, phase_2 \in Phase2Pool, phase_3 \in Phase3Pool :
        /\ Changed(rp_first, user_input, s1_knowledge, phase_1, phase_2, phase_3) <= 1
        /\ rp_second' = Build(detector, user_input, s1_knowledge, phase_1, phase_2, phase_3)
    /\ UNCHANGED rp_first
    /\ UNCHANGED <<ex_vars, ch_vars, fm_vars, an_vars, nz_vars, cc_vars, mn_vars>>

(***************************************************************************)
(* The reports format_report is run on: the reports _build_report makes of *)
(* the results above, and report structures with sections or fields       *)
(* absent, empty, or holding several items.                                *)
(***************************************************************************)
BuiltReports ==
    { BuildReport(SomeDetector, user_input, s1_knowledge, phase_1, phase_2, phase_3) :
        user_input \in {<<"s">>}, s1_knowledge \in S1Pool, phase_1 \in Phase1Pool,
        phase_2 \in Phase2Pool, phase_3 \in Phase3Pool }

OtherReports ==
    { JDict(<<>>),
      JDict(<<Pair(K.report_id, JStr(<<"x">>)),
        Pair(K.logical_breakdown, JDict(<<Pair(K.primary_goal, JStr(<<"g">>)),
        Pair(K.core_variables, JList(<<JStr(<<"a">>), JStr(<<"b">>)>>)),
        Pair(K.retrieved_internal_knowledge, JList(<<JStr(<<"k", "1">>), JStr(<<"k", "2">>)>>)),
        Pair(K.internal_knowledge_used, JList(<<JStr(<<"u">>)>>)),
        Pair(K.knowledge_gaps, JList(<<JStr(<<"g", "1">>), JStr(<<"g", "2">>)>>)),
        Pair(K.hidden_assumptions, JList(<<JStr(<<"h">>)>>)),
        Pair(K.reality_gaps, JList(<<JStr(<<"r", "1">>), JStr(<<"r", "2">>)>>))>>)),
        Pair(K.stress_test_results, JList(<<JDict(<<Pair(K.name, JStr(<<"n">>)),
        Pair(K.result, JStr(<<"r">>)), Pair(K.goal_impact, JStr(<<"i">>))>>), JDict(<<>>)>>)),
        Pair(K.paradox_diagnosis, JDict(<<Pair(K.type, JStr(<<"A", "n", "t", "i", "n", "o", "m", "y">>)),
        Pair(K.reasoning, JStr(<<"w", "h", "y">>)),
        Pair(K.contradiction_path, JList(<<JStr(<<"p">>), JStr(<<"q">>)>>))>>)),
        Pair(K.suggested_mitigation, JList(<<JStr(<<"m", "1">>), JStr(<<"m", "2">>)>>))>>),
      JDict(<<Pair(K.logical_breakdown, JDict(<<Pair(K.primary_goal, JStr(<<>>)),
        Pair(K.core_variables, JList(<<>>))>>)),
        Pair(K.stress_test_results, JList(<<JDict(<<Pair(K.name, JStr(<<>>)),
        Pair(K.result, JStr(<<>>)), Pair(K.goal_impact, JStr(<<>>))>>)>>)),
        Pair(K.paradox_diagnosis, JDict(<<Pair(K.type, JStr(<<>>)),
        Pair(K.reasoning, JStr(<<>>))>>)), Pair(K.suggested_mitigation, JList(<<>>))>>),
      JDict(<<Pair(K.logical_breakdown, JDict(<<Pair(K.primary_goal, JStr(<<"g">>)),
        Pair(K.core_variables, JList(<<JStr(<<"a">>)>>))>>)),
        Pair(K.paradox_diagnosis, JDict(<<Pair(K.reasoning, JStr(<<"w", "h", "y">>))>>))>>) }

Reports == BuiltReports \cup OtherReports

FmIdle ==
    /\ fm_pc = "idle"
    /\ fm_report = JNull
    /\ fm_text = <<>>

FmChoose ==
    /\ fm_pc = "idle"
    /\ \E report \in Reports : fm_report' = report
    /\ fm_pc' = "ready"
    /\ UNCHANGED fm_text
    /\ UNCHANGED <<ex_vars, ch_vars, rp_vars, an_vars, nz_vars, cc_vars, mn_vars>>

\* text = format_report(report)
FmRun ==
    /\ fm_pc = "ready"
    /\ fm_text' = FormatReport(fm_report)
    /\ fm_pc' = "done"
    /\ UNCHANGED fm_report
    /\ UNCHANGED <<ex_vars, ch_vars, rp_vars, an_vars, nz_vars, cc_vars, mn_vars>>

(***************************************************************************)
(* The inputs _extract_json_dict is run on: the serialization of a         *)
(* mapping, a fenced serialization between prose, and texts put together   *)
(* from a few pieces.                                                      *)
(***************************************************************************)
MaxPairs == 2

MaxChunks == 5

KeyPool == {<<"a">>, <<"}">>, FenceJson}

ValuePool ==
    { JStr(<<"x">>), JStr(<<"}">>), JStr(<<"{">>), JStr(FenceJson), JInt(1), JDict(<<>>) }

\* The dicts of at most MaxPairs entries, in every insertion order.
Mappings ==
    { JDict(entries) :
        entries \in { e \in UNION { [1..k -> [k : KeyPool, v : ValuePool]] : k \in 0..MaxPairs } :
                        \A i, j \in 1..Len(e) : i # j => e[i].k # e[j].k } }

Prefixes == { <<>>, <<"o", "k", ":", " ">>, <<"u", "s", "e", " ", "{", "x", "}", ":", " ">> }

Suffixes == { <<>>, <<" ", "d", "o", "n", "e">> }

\* A fenced block holding the serialization of m.
Fenced(m) == FenceJson \o <<"\n">> \o JsonDumps(m) \o <<"\n">> \o Fence

RawChunks ==
    { <<"{">>, <<"}">>, <<"{", "}">>, <<"1">>,
      <<"\"", "a", "\"", ":", "1">>,
      <<"\"", "a", "\"", ":", "\"", "}", "\"">> }

RawTexts == { Concat(cs) : cs \in UNION { [1..k -> RawChunks] : k \in 0..MaxChunks } }

ExIdle ==
    /\ ex_pc = "idle"
    /\ ex_mode = "none"
    /\ ex_target = JNull
    /\ ex_text = <<>>
    /\ ex_result = NoResult

\* text = json.dumps(m)
ExDumps ==
    /\ ex_pc = "idle"
    /\ \E m \in Mappings :
        /\ ex_target' = m
        /\ ex_text' = JsonDumps(m)
    /\ ex_mode' = "dumps"
    /\ ex_pc' = "ready"
    /\ UNCHANGED ex_result
    /\ UNCHANGED <<ch_vars, rp_vars, fm_vars, an_vars, nz_vars, cc_vars, mn_vars>>

\* text = prose + fenced json.dumps(m) + prose
ExWrapped ==
    /\ ex_pc = "idle"
    /\ \E m \in Mappings, prefix \in Prefixes, suffix \in Suffixes :
        /\ ex_target' = m
        /\ ex_text' = prefix \o Fenced(m) \o suffix
    /\ ex_mode' = "wrapped"
    /\ ex_pc' = "ready"
    /\ UNCHANGED ex_result
    /\ UNCHANGED <<ch_vars, rp_vars, fm_vars, an_vars, nz_vars, cc_vars, mn_vars>>

ExRaw ==
    /\ ex_pc = "idle"
    /\ \E text \in RawTexts : ex_text' = text
    /\ ex_mode' = "raw"
    /\ ex_pc' = "ready"
    /\ UNCHANGED <<ex_target, ex_result>>
    /\ UNCHANGED <<ch_vars, rp_vars, fm_vars, an_vars, nz_vars, cc_vars, mn_vars>>

\* _extract_json_dict(ex_text)
ExRun ==
    /\ ex_pc = "ready"
    /\ ex_result' = ExtractJsonDict(ex_text)
    /\ ex_pc' = "done"
    /\ UNCHANGED <<ex_mode, ex_target, ex_text>>
    /\ UNCHANGED <<ch_vars, rp_vars, fm_vars, an_vars, nz_vars, cc_vars, mn_vars>>

(***************************************************************************)
(* The values the field normalizers are run on: lists of a few elements    *)
(* (texts with and without surrounding whitespace, empty texts, null,      *)
(* numbers, booleans, a mapping, a nested list) and each element alone.    *)
(***************************************************************************)
MaxItems == 3

ItemPool ==
    { JStr(<<"a">>), JStr(<<" ", "b", "\n">>), JStr(<<" ">>), JStr(<<>>),
      JNull, JInt(5), JBool(FALSE), JDict(<<>>), JList(<<JStr(<<" ">>)>>) }

NormalizerValues ==
    ItemPool \cup { JList(elems) : elems \in UNION { [1..k -> ItemPool] : k \in 0..MaxItems } }

NzIdle ==
    /\ nz_pc = "idle"
    /\ nz_fn = "none"
    /\ nz_arg = JNull
    /\ nz_result = <<>>

\* result = _as_string_list(value)
NzAsStringList ==
    /\ nz_pc = "idle"
    /\ \E value \in NormalizerValues :
        /\ nz_arg' = value
        /\ nz_result' = AsStringList(value)
    /\ nz_fn' = "_as_string_list"
    /\ nz_pc' = "done"
    /\ UNCHANGED <<ex_vars, ch_vars, rp_vars, fm_vars, an_vars, cc_vars, mn_vars>>

(***************************************************************************)
(* The Phase 2 results _build_report is run on: without branches, with     *)
(* branches that are no list, and with lists of a few entries (mappings    *)
(* with all, some and none of the three keys, whose values are texts with  *)
(* and without surrounding whitespace, empty or blank texts, null and a    *)
(* number; a text, null and a list as entries that are no mappings).       *)
(***************************************************************************)
MaxBranches == 2

BranchEntries ==
    { JDict(<<>>),
      JDict(<< Pair(K.name, JStr(<<" ", "a", " ">>)), Pair(K.result, JStr(<<>>)),
               Pair(K.goal_impact, JStr(<<" ">>)) >>),
      JDict(<< Pair(K.name, JNull), Pair(K.result, JInt(5)) >>),
      JStr(<<"x">>), JNull, JList(<<JStr(<<"l">>)>>) }

Phase2Values ==
    { JDict(<<>>) }
    \cup { JDict(<< Pair(K.branches, b) >>) : b \in { JNull, JStr(<<"x">>), JDict(<<>>) } }
    \cup { JDict(<< Pair(K.branches, JList(entries)) >>) :
             entries \in UNION { [1..k -> BranchEntries] : k \in 0..MaxBranches } }

\* report = self._build_report("s", {}, {}, phase_2, {})
NzBuildReport ==
    /\ nz_pc = "idle"
    /\ \E phase_2 \in Phase2Values :
        /\ nz_arg' = phase_2
        /\ nz_result' = BuildReport(SomeDetector, <<"s">>, JDict(<<>>), JDict(<<>>), phase_2,
                                    JDict(<<>>))
    /\ nz_fn' = "_build_report"
    /\ nz_pc' = "done"
    /\ UNCHANGED <<ex_vars, ch_vars, rp_vars, fm_vars, an_vars, cc_vars, mn_vars>>

(***************************************************************************)
(* Two analyze calls at once on one ParadoxDetector, hence on one          *)
(* OpenAICompatClient, and a direct chat call on that client with a        *)
(* temperature of its own.  The locals of analyze and of chat (the         *)
(* results so far, the prompt, the payload, the response) belong to the    *)
(* call; self.client, self.output_language and self.config are shared.     *)
(* A step here is one chat call up to its request, or the rest of a stage  *)
(* from the answer on: between two steps of a call the other call and the  *)
(* direct chat may take any number of theirs.                              *)
(***************************************************************************)
Threads == {1, 2}

\* The statement of each call.
ThreadInput == << <<"s">>, <<"t">> >>

\* What the endpoint answers to a request: a completion holding an object,
\* one holding the empty object, or a failure.
SharedAnswers ==
    { Body(CompletionBody(JStr(<<" ">> \o ObjectText \o <<"\n">>))),
      Body(CompletionBody(JStr(<<"{", "}">>))),
      HttpError }

\* A variant in which chat keeps the temperature it resolved in self.config.
ConfigAfterChatStored(config, temperature) ==
    [config EXCEPT !.default_temperature = ResolvedTemperature(config, temperature)]

\* self.config once chat has run: lines 42-83 read it (lines 42, 46, 49, 57,
\* 58, 60 and 66) and assign neither it nor any of its fields.
ConfigAfterChat(config, temperature) == config

\* The detector the two calls share.
SharedDetectors == { SomeDetector, [client |-> [api_key |-> <<>>, default_temperature |-> 7], output_language |-> <<"E", "n", "g", "l", "i", "s", "h">>] }

NoChat == [pc |-> "idle", temperature |-> NoTemperature, payload |-> NoTemperature]

\* A call is in flight from its first chat call until it returns or raises.
InFlight(t) == cc_requests[t] # <<>> /\ cc_pc[t] \notin {"done", "raised"}

CcIdle ==
    /\ cc_pc = [t \in Threads |-> "call"]
    /\ cc_requests = [t \in Threads |-> <<>>]
    /\ cc_answers = [t \in Threads |-> <<>>]
    /\ cc_results = [t \in Threads |-> <<>>]
    /\ cc_outcome = [t \in Threads |-> NoResult]
    /\ cc_chat = NoChat
    /\ cc_overlap = FALSE

\* Call t renders the prompt of its next stage from its own results and calls
\* chat on the shared client without a temperature.
CcCall(t) ==
    /\ cc_pc[t] = "call"
    /\ LET stage == StageAt(Len(cc_results[t]) + 1)
           prompt == RenderPrompt(stage, cc_detector, ThreadInput[t], cc_results[t])
           config == cc_detector.client
       IN  /\ IF config.api_key = <<>>
              THEN /\ cc_outcome' = [cc_outcome EXCEPT ![t] = StageRaised("AgentAPIError")]
                   /\ cc_pc' = [cc_pc EXCEPT ![t] = "raised"]
                   /\ UNCHANGED cc_requests
              ELSE /\ cc_requests' = [cc_requests EXCEPT ![t] =
                          Append(@, [call |-> ChatCall(stage, prompt),
                                     temperature |-> ResolvedTemperature(config, NoTemperature)])]
                   /\ cc_pc' = [cc_pc EXCEPT ![t] = "wait"]
                   /\ UNCHANGED cc_outcome
           /\ cc_detector' = [cc_detector EXCEPT !.client = ConfigAfterChat(config, NoTemperature)]
    /\ cc_overlap' = (cc_overlap \/ \E u \in Threads \ {t} : InFlight(u))
    /\ UNCHANGED <<cc_answers, cc_results, cc_chat>>
    /\ UNCHANGED <<ex_vars, ch_vars, rp_vars, fm_vars, an_vars, nz_vars, mn_vars>>

\* The network answers the request of call t; chat returns the completion or
\* raises, and _extract_json_dict gives the result of the stage or raises.
CcReceive(t) ==
    /\ cc_pc[t] = "wait"
    /\ \E transport \in SharedAnswers :
        /\ cc_answers' = [cc_answers EXCEPT ![t] = Append(@, transport)]
        /\ \E raw \in {Receive(transport)} :
            IF Raised(raw)
            THEN /\ cc_outcome' = [cc_outcome EXCEPT ![t] = StageRaised(raw.kind)]
                 /\ cc_pc' = [cc_pc EXCEPT ![t] = "raised"]
                 /\ UNCHANGED cc_results
            ELSE \E extracted \in {ExtractJsonDict(raw.text)} :
                 IF Raised(extracted)
                 THEN /\ cc_outcome' = [cc_outcome EXCEPT ![t] = extracted]
                      /\ cc_pc' = [cc_pc EXCEPT ![t] = "raised"]
                      /\ UNCHANGED cc_results
                 ELSE /\ cc_results' = [cc_results EXCEPT ![t] = Append(@, extracted.val)]
                      /\ cc_pc' = [cc_pc EXCEPT ![t] =
                             IF Len(cc_results[t]) + 1 = Len(StageOrder) THEN "build" ELSE "call"]
                      /\ UNCHANGED cc_outcome
    /\ UNCHANGED <<cc_detector, cc_requests, cc_chat, cc_overlap>>
    /\ UNCHANGED <<ex_vars, ch_vars, rp_vars, fm_vars, an_vars, nz_vars, mn_vars>>

\* Lines 198-204 in call t.
CcBuild(t) ==
    /\ cc_pc[t] = "build"
    /\ cc_outcome' = [cc_outcome EXCEPT ![t] =
           Returned(BuildReport(cc_detector, ThreadInput[t], cc_results[t][1], cc_results[t][2],
                                cc_results[t][3], cc_results[t][4]))]
    /\ cc_pc' = [cc_pc EXCEPT ![t] = "done"]
    /\ UNCHANGED <<cc_detector, cc_requests, cc_answers, cc_results, cc_chat, cc_overlap>>
    /\ UNCHANGED <<ex_vars, ch_vars, rp_vars, fm_vars, an_vars, nz_vars, mn_vars>>

\* client.chat(system_prompt=..., user_prompt=..., temperature=t) by another
\* caller, up to its request (lines 42-65).
CcChatCall ==
    /\ cc_chat.pc = "idle"
    /\ \E temperature \in Temperatures :
        LET config == cc_detector.client
        IN  /\ cc_chat' = [pc |-> IF config.api_key = <<>> THEN "raised" ELSE "sent",
                           temperature |-> temperature,
                           payload |-> IF config.api_key = <<>> THEN NoTemperature
                                       ELSE ResolvedTemperature(config, temperature)]
            /\ cc_detector' = [cc_detector EXCEPT !.client = ConfigAfterChat(config, temperature)]
    /\ UNCHANGED <<cc_pc, cc_requests, cc_answers, cc_results, cc_outcome, cc_overlap>>
    /\ UNCHANGED <<ex_vars, ch_vars, rp_vars, fm_vars, an_vars, nz_vars, mn_vars>>

\* The direct chat call from the answer of the network on (lines 66-83).
CcChatReceive ==
    /\ cc_chat.pc = "sent"
    /\ \E transport \in SharedAnswers :
        cc_chat' = [cc_chat EXCEPT !.pc = IF Raised(Receive(transport)) THEN "raised" ELSE "done"]
    /\ UNCHANGED <<cc_detector, cc_pc, cc_requests, cc_answers, cc_results, cc_outcome, cc_overlap>>
    /\ UNCHANGED <<ex_vars, ch_vars, rp_vars, fm_vars, an_vars, nz_vars, mn_vars>>

(***************************************************************************)
(* load_model_config (apis.py 95-156), for what yaml.safe_load gave and    *)
(* the value of the environment variable the data names.  A number of the  *)
(* data and of the configuration is kept in tenths, as the temperatures    *)
(* are.                                                                    *)
(***************************************************************************)
CK == [ provider |-> <<"p", "r", "o", "v", "i", "d", "e", "r">>,
        model |-> <<"m", "o", "d", "e", "l">>,
        base_url |-> <<"b", "a", "s", "e", "_", "u", "r", "l">>,
        api_key_env |-> <<"a", "p", "i", "_", "k", "e", "y", "_", "e", "n", "v">>,
        api_key |-> <<"a", "p", "i", "_", "k", "e", "y">>,
        timeout_seconds |-> <<"t", "i", "m", "e", "o", "u", "t", "_", "s", "e", "c", "o", "n", "d", "s">>,
        default_temperature |-> <<"d", "e", "f", "a", "u", "l", "t", "_", "t", "e", "m", "p", "e", "r", "a", "t", "u", "r", "e">> ]

\* float(v) of lines 133-134: the number of a number, of a boolean and of a
\* text of digits; ValueError for a text that holds no number; TypeError for
\* None, a list and a mapping.
FloatOf(v) ==
    CASE v.t = "int" -> Value(JInt(v.n))
      [] v.t = "bool" -> Value(JInt(10 * v.n))
      [] v.t = "str" ->
           LET text == Strip(v.s)
           IN  IF text # <<>> /\ \A i \in 1..Len(text) : text[i] \in Digits
               THEN Value(JInt(10 * ScanDigits(text, 1, 0).val.n))
               ELSE Raises("ValueError")
      [] OTHER -> Raises("TypeError")

NoConfig == [api_key |-> <<>>, default_temperature |-> 0]

ConfigRaised(kind) == [kind |-> kind, config |-> NoConfig]

ConfigLoaded(config) == [kind |-> "return", config |-> config]

\* found: _resolve_config_path found a file (lines 58-92; APIConfigError
\* otherwise); readable: yaml was imported and the file read and parsed
\* (lines 36-43 and 102-105; APIConfigError otherwise); loaded: what
\* safe_load returned; env_key: os.getenv(api_key_env, "").
LoadModelConfig(found, readable, loaded, env_key) ==
    LET data == IF Truthy(loaded) THEN loaded ELSE JDict(<<>>)
        field(key) == StrStrip(DictGet(data.pairs, key, JStr(<<>>)))
        from_env == IF field(CK.api_key_env) # <<>> THEN Strip(env_key) ELSE <<>>
        api_key == IF from_env # <<>> THEN from_env ELSE field(CK.api_key)
        timeout_seconds == FloatOf(DictGet(data.pairs, CK.timeout_seconds, JInt(900)))
        default_temperature == FloatOf(DictGet(data.pairs, CK.default_temperature, JInt(2)))
    IN  IF ~found \/ ~readable THEN ConfigRaised("APIConfigError")
        ELSE IF data.t # "dict" THEN ConfigRaised("APIConfigError")
        ELSE IF field(CK.provider) = <<>> \/ field(CK.model) = <<>> \/ field(CK.base_url) = <<>>
             THEN ConfigRaised("APIConfigError")
        ELSE IF api_key = <<>> THEN ConfigRaised("APIConfigError")
        ELSE IF timeout_seconds.exc # "" THEN ConfigRaised(timeout_seconds.exc)
        ELSE IF default_temperature.exc # "" THEN ConfigRaised(default_temperature.exc)
        ELSE ConfigLoaded([api_key |-> api_key,
                           default_temperature |-> default_temperature.val.n])

(***************************************************************************)
(* main of run.py (lines 48-69).                                           *)
(***************************************************************************)
\* _read_statement (lines 42-45); typed is the line input() reads.
ReadStatement(parts, typed) ==
    IF parts # <<>> THEN Strip(JoinWith(<<" ">>, parts)) ELSE Strip(typed)

\* A variant of the except clause without ValueError.
CaughtByMainWithoutValueError == {"APIConfigError", "AgentAPIError"}

\* Line 61: except (APIConfigError, AgentAPIError, ValueError)
CaughtByMain == {"APIConfigError", "AgentAPIError", "ValueError"}

ErrorPrefix == <<"[", "E", "R", "R", "O", "R", "]", " ">>

\* Line 62: the line "[ERROR] " and str(exc); exc is the kind of the
\* exception and message what the model holds of its message.
ErrorLine(exc, message) == [what |-> "error", exc |-> exc, text |-> ErrorPrefix \o message]

\* Lines 65-68: the report as JSON or as text.
ReportLine(as_json, report) ==
    [what |-> IF as_json THEN "json" ELSE "text", exc |-> "",
     text |-> IF as_json THEN DumpsIndent(report, 0) ELSE FormatReport(report)]

NoExit == [how |-> "none", code |-> 0, exc |-> ""]

\* return code
Return(code) == [how |-> "return", code |-> code, exc |-> ""]

\* The exception leaves main: the interpreter prints the traceback on stderr
\* and the process ends with status 1; parser.error raises SystemExit(2).
Escapes(exc, code) == [how |-> "raise", code |-> code, exc |-> exc]

NoArgs == [statement |-> <<>>, lang |-> <<>>, config |-> "", json |-> FALSE]

NoDetector == [client |-> NoConfig, output_language |-> <<>>]

\* What the command line holds for statement, and what is typed when it
\* holds nothing.
StatementParts == { <<>>, << <<"s">> >>, << <<" ">>, <<>> >> }

TypedLines == { <<>>, <<"s", "\n">> }

\* What safe_load returns of the configuration file.
ConfigData ==
    LET base == << Pair(CK.provider, JStr(<<"p">>)), Pair(CK.model, JStr(<<"m">>)),
                   Pair(CK.base_url, JStr(<<"u">>)) >>
        key == Pair(CK.api_key, JStr(<<"k">>))
    IN  { JNull,
          JList(<<JStr(<<"x">>)>>),
          JDict(<<Pair(CK.provider, JStr(<<"p">>)), Pair(CK.model, JStr(<<" ">>)), key>>),
          JDict(base),
          JDict(Append(base, key)),
          JDict(base \o <<Pair(CK.api_key_env, JStr(<<"E">>)), Pair(CK.api_key, JStr(<<" ">>))>>),
          JDict(base \o <<key, Pair(CK.default_temperature, JInt(7))>>),
          JDict(base \o <<key, Pair(CK.default_temperature, JStr(<<"7">>))>>),
          JDict(base \o <<key, Pair(CK.timeout_seconds, JStr(<<"s", "o", "o", "n">>))>>),
          JDict(base \o <<key, Pair(CK.default_temperature, JNull)>>) }

EnvKeys == { <<>>, <<"e">> }

MnIdle ==
    /\ mn_pc = "start"
    /\ mn_args = NoArgs
    /\ mn_exc = ""
    /\ mn_stdout = <<>>
    /\ mn_exit = NoExit

\* analyze has not been called.
AnNotCalled ==
    /\ an_pc = "none"
    /\ an_detector = NoDetector
    /\ an_user_input = <<>>
    /\ an_calls = <<>>
    /\ an_answers = <<>>
    /\ an_raw = ChatRaised("none")
    /\ an_results = <<>>
    /\ an_outcome = NoResult

\* Lines 49-53: the arguments and the statement; an empty statement ends the
\* run in parser.error.
MnParse ==
    /\ mn_pc = "start"
    /\ \E parts \in StatementParts, typed \in TypedLines, lang \in Languages,
          config \in {"", "deepseek-chat"}, as_json \in BOOLEAN :
        LET statement == ReadStatement(parts, typed)
        IN  /\ mn_args' = [statement |-> statement, lang |-> lang, config |-> config,
                           json |-> as_json]
            /\ IF statement = <<>>
               THEN /\ mn_exit' = Escapes("SystemExit", 2)
                    /\ mn_pc' = "exit"
               ELSE /\ mn_pc' = "load"
                    /\ UNCHANGED mn_exit
    /\ UNCHANGED <<mn_exc, mn_stdout>>
    /\ UNCHANGED <<ex_vars, ch_vars, rp_vars, fm_vars, an_vars, nz_vars, cc_vars>>

\* Lines 56-60: ParadoxDetector.from_default loads the configuration and
\* makes the detector (agents.py 180-191); then analyze is called.
MnLoad ==
    /\ mn_pc = "load"
    /\ \E found \in BOOLEAN, readable \in BOOLEAN, loaded \in ConfigData, env_key \in EnvKeys :
        \E got \in {LoadModelConfig(found, readable, loaded, env_key)} :
            IF got.kind # "return"
            THEN /\ mn_exc' = got.kind
                 /\ mn_pc' = "raised"
                 /\ UNCHANGED <<an_pc, an_detector, an_user_input>>
            ELSE /\ an_detector' = [client |-> got.config, output_language |-> mn_args.lang]
                 /\ an_user_input' = mn_args.statement
                 /\ an_pc' = "call"
                 /\ mn_pc' = "analyze"
                 /\ UNCHANGED mn_exc
    /\ UNCHANGED <<mn_args, mn_stdout, mn_exit>>
    /\ UNCHANGED <<an_calls, an_answers, an_raw, an_results, an_outcome>>
    /\ UNCHANGED <<ex_vars, ch_vars, rp_vars, fm_vars, nz_vars, cc_vars>>

\* Lines 61-63: an exception of the try block is caught, printed and turned
\* into status 1, or leaves main.
MnHandle ==
    /\ \/ mn_pc = "raised"
       \/ mn_pc = "analyze" /\ an_pc = "raised"
    /\ LET exc == IF mn_pc = "raised" THEN mn_exc ELSE an_outcome.kind
           message == IF mn_pc = "raised" THEN <<>> ELSE an_outcome.text
       IN  /\ mn_exc' = exc
           /\ IF exc \in CaughtByMain
              THEN /\ mn_stdout' = Append(mn_stdout, ErrorLine(exc, message))
                   /\ mn_exit' = Return(1)
              ELSE /\ mn_exit' = Escapes(exc, 1)
                   /\ UNCHANGED mn_stdout
    /\ mn_pc' = "exit"
    /\ UNCHANGED mn_args
    /\ UNCHANGED <<ex_vars, ch_vars, rp_vars, fm_vars, an_vars, nz_vars, cc_vars>>

\* Lines 65-69: analyze returned the report.
MnPrint ==
    /\ mn_pc = "analyze"
    /\ an_pc = "done"
    /\ mn_stdout' = Append(mn_stdout, ReportLine(mn_args.json, an_outcome.val))
    /\ mn_exit' = Return(0)
    /\ mn_pc' = "exit"
    /\ UNCHANGED <<mn_args, mn_exc>>
    /\ UNCHANGED <<ex_vars, ch_vars, rp_vars, fm_vars, an_vars, nz_vars, cc_vars>>

(***************************************************************************)
(* The specifications: one per part of the program.                        *)
(***************************************************************************)
InitExtract ==
    /\ ExIdle
    /\ ChIdle /\ ch_config = SomeConfig
    /\ RpIdle
    /\ FmIdle
    /\ AnIdle /\ an_detector = SomeDetector
    /\ NzIdle
    /\ CcIdle /\ cc_detector = SomeDetector
    /\ MnIdle

NextExtract == ExDumps \/ ExWrapped \/ ExRaw \/ ExRun

SpecExtract == InitExtract /\ [][NextExtract]_vars

InitChat ==
    /\ ExIdle
    /\ ChIdle /\ ch_config \in Configs
    /\ RpIdle
    /\ FmIdle
    /\ AnIdle /\ an_detector = SomeDetector
    /\ NzIdle
    /\ CcIdle /\ cc_detector = SomeDetector
    /\ MnIdle

NextChat == ChCall \/ ChReceive

SpecChat == InitChat /\ [][NextChat]_vars

InitReport == InitExtract

NextReport == RpBuildFirst \/ RpBuildSecond

SpecReport == InitReport /\ [][NextReport]_vars

InitFormat == InitExtract

NextFormat == FmChoose \/ FmRun

SpecFormat == InitFormat /\ [][NextFormat]_vars

InitPipeline ==
    /\ ExIdle
    /\ ChIdle /\ ch_config = SomeConfig
    /\ RpIdle
    /\ FmIdle
    /\ AnIdle /\ an_detector \in Detectors
    /\ NzIdle
    /\ CcIdle /\ cc_detector = SomeDetector
    /\ MnIdle

NextPipeline == AnCall \/ AnReceive \/ AnExtract \/ AnBuild

SpecPipeline == InitPipeline /\ [][NextPipeline]_vars

InitNormalize == InitExtract

NextNormalize == NzAsStringList \/ NzBuildReport

SpecNormalize == InitNormalize /\ [][NextNormalize]_vars

InitShared ==
    /\ ExIdle
    /\ ChIdle /\ ch_config = SomeConfig
    /\ RpIdle
    /\ FmIdle
    /\ AnIdle /\ an_detector = SomeDetector
    /\ NzIdle
    /\ CcIdle /\ cc_detector \in SharedDetectors
    /\ MnIdle

NextShared ==
    \/ \E t \in Threads : CcCall(t) \/ CcReceive(t) \/ CcBuild(t)
    \/ CcChatCall
    \/ CcChatReceive

SpecShared == InitShared /\ [][NextShared]_vars

InitMain ==
    /\ ExIdle
    /\ ChIdle /\ ch_config = SomeConfig
    /\ RpIdle
    /\ FmIdle
    /\ AnNotCalled
    /\ NzIdle
    /\ CcIdle /\ cc_detector = SomeDetector
    /\ MnIdle

NextMain ==
    MnParse \/ MnLoad \/ AnCall \/ AnReceive \/ AnExtract \/ AnBuild \/ MnHandle \/ MnPrint

SpecMain == InitMain /\ [][NextMain]_vars

(***************************************************************************)
(* Claims about _extract_json_dict, under SpecExtract.                     *)
(***************************************************************************)
ExDone == ex_pc = "done"

\* The number of "{" minus the number of "}" in cleaned[a..b].
BraceBalance(cleaned, a, b) ==
    Cardinality({i \in a..b : cleaned[i] = "{"}) - Cardinality({i \in a..b : cleaned[i] = "}"})

\* The end of the brace-balanced substring that starts at start, 0 if none.
BalancedEnd(cleaned, start) ==
    LET ends == {e \in start..Len(cleaned) : BraceBalance(cleaned, start, e) = 0}
    IN  IF ends = {} THEN 0 ELSE CHOOSE e \in ends : \A f \in ends : e <= f

\* The "{" positions whose brace-balanced substring parses as a mapping.
ParseableStarts(cleaned) ==
    {b \in 1..Len(cleaned) :
        /\ cleaned[b] = "{"
        /\ BalancedEnd(cleaned, b) # 0
        /\ LET parsed == JsonLoads(SubSeq(cleaned, b, BalancedEnd(cleaned, b)))
           IN  parsed.ok /\ IsDict(parsed.val)}

LeftmostStart(cleaned) ==
    CHOOSE b \in ParseableStarts(cleaned) : \A c \in ParseableStarts(cleaned) : b <= c

ParsesDirectly(text) ==
    LET parsed == JsonLoads(Cleaned(text)) IN parsed.ok /\ IsDict(parsed.val)

\* C3: _extract_json_dict(json.dumps(m)) returns a mapping equal to m, for
\* every mapping m, also one whose keys or values hold backticks, the json
\* fence tag or braces.
C3_RoundTrip ==
    (ExDone /\ ex_mode = "dumps")
        => (ex_result.kind = "return" /\ PyEq(ex_result.val, ex_target))

\* C4: _extract_json_dict(prefix + fenced json.dumps(m) + suffix) returns m,
\* for every mapping m and every prose prefix and suffix, also when a string
\* of m holds braces.
C4_RecoversFenced ==
    (ExDone /\ ex_mode = "wrapped")
        => (ex_result.kind = "return" /\ PyEq(ex_result.val, ex_target))

\* C8: when the cleaned text does not parse directly as a mapping and some
\* brace-balanced substring does, the result is the mapping parsed from the
\* one with the smallest start index (leftmost-first), whatever fails before
\* it and whatever parses after it.
C8_LeftmostFirst ==
    (ExDone /\ ~ParsesDirectly(ex_text) /\ ParseableStarts(Cleaned(ex_text)) # {})
        => LET cleaned == Cleaned(ex_text)
               b == LeftmostStart(cleaned)
           IN  ex_result =
                   Returned(JsonLoads(SubSeq(cleaned, b, BalancedEnd(cleaned, b))).val)

\* C8 witness: the first candidate is closed and fails to parse, the chosen
\* one starts inside it, and a further object parses after the chosen one.
C8_Witness ==
    /\ ExDone
    /\ ~ParsesDirectly(ex_text)
    /\ LET cleaned == Cleaned(ex_text)
           first == Find(cleaned, "{", 1)
       IN  /\ Cardinality(ParseableStarts(cleaned)) >= 2
           /\ first # 0
           /\ first < LeftmostStart(cleaned)
           /\ LeftmostStart(cleaned) < BalancedEnd(cleaned, first)
           /\ ex_result.kind = "return"

\* C9: _extract_json_dict raises ValueError, carrying the text it was given,
\* exactly when neither the cleaned text nor any candidate parses as a
\* mapping, so for every text without "{"; whatever it returns is a mapping.
C9_FailsWithoutMapping ==
    ExDone =>
        /\ ex_result.kind \in {"return", "ValueError"}
        /\ ex_result.kind = "return" => IsDict(ex_result.val)
        /\ ex_result.kind = "ValueError"
              <=> (~ParsesDirectly(ex_text) /\ ParseableStarts(Cleaned(ex_text)) = {})
        /\ ex_result.kind = "ValueError" => ex_result.text = ex_text
        /\ (\A i \in 1..Len(ex_text) : ex_text[i] # "{") => ex_result.kind = "ValueError"

\* C9 witness: a text with braces, changed by the cleaning, in which nothing
\* parses as a mapping, and the error raised for it.
C9_Witness ==
    /\ ExDone
    /\ ex_result.kind = "ValueError"
    /\ Cleaned(ex_text) # ex_text
    /\ \E i \in 1..Len(ex_text) : ex_text[i] = "{"

(***************************************************************************)
(* Claims about OpenAICompatClient.chat, under SpecChat.                   *)
(***************************************************************************)
\* C6: every failing outcome of chat is raised as AgentAPIError and as no
\* other kind of error (empty key, connection failure, status outside 2xx,
\* body that is not JSON, JSON of any shape other than a str at
\* choices[0].message.content), and with an empty key no request is sent.
C6_OnlyAgentAPIError ==
    ch_pc = "done" =>
        /\ ch_result.kind \in {"return", "AgentAPIError"}
        /\ ch_config.api_key = <<>> => (ch_result.kind = "AgentAPIError" /\ ch_requests = <<>>)

(***************************************************************************)
(* Claims about ParadoxDetector.analyze, under SpecPipeline.               *)
(***************************************************************************)
\* The stages of the chat calls issued so far.
CallStages == [i \in 1..Len(an_calls) |-> an_calls[i].stage]

\* C1: a successful analyze issues exactly four chat calls, in the order S1,
\* Phase 1, Phase 2, Phase 3; the call of a stage is issued only after the
\* answer of the previous stage was received and its object extracted; and the
\* report is built only after all four stage results exist.
C1_FourCallsInOrder ==
    /\ CallStages = SubSeq(<< "S1", "Phase1", "Phase2", "Phase3" >>, 1, Len(an_calls))
    /\ Len(an_calls) \in { Len(an_results), Len(an_results) + 1 }
    /\ Len(an_results) <= Len(an_answers)
    /\ Len(an_answers) <= Len(an_calls)
    /\ an_pc \in { "wait", "extract" } => Len(an_calls) = Len(an_results) + 1
    /\ an_outcome.kind = "return" => (Len(an_results) = 4 /\ Len(an_calls) = 4)
    /\ an_pc = "done" => (an_outcome.kind = "return" /\ Len(an_calls) = 4)

C1_Witness ==
    /\ an_pc = "done"
    /\ CallStages = << "S1", "Phase1", "Phase2", "Phase3" >>
    /\ an_outcome.kind = "return"
    /\ an_results[3] # an_results[4]

\* The answers with which a stage fails, and the error each makes it raise:
\* chat raises at once, _extract_json_dict when it is run on the completion.
StageErrors ==
    << [answer |-> HttpError, error |-> StageRaised("AgentAPIError")],
       [answer |-> UrlError, error |-> StageRaised("AgentAPIError")],
       [answer |-> Body(CompletionBody(JStr(ProseText))), error |-> RaisedValueError(ProseText)],
       [answer |-> Body(CompletionBody(JNull)), error |-> StageRaised("AttributeError")] >>

\* C2: when the chat call or the extraction of a stage fails, no further chat
\* call is issued (the stage is not retried, no later stage is started),
\* analyze returns no report, and the caller receives the error of that stage;
\* a Phase 2 answer without a JSON object leaves zero Phase 3 calls.
C2_FailureAborts ==
    /\ \A i \in 1..Len(an_answers), e \in 1..Len(StageErrors) :
           an_answers[i] = StageErrors[e].answer =>
               /\ i = Len(an_answers)
               /\ Len(an_calls) = i
               /\ Len(an_results) = i - 1
               /\ an_pc \in { "raised", "extract" }
               /\ an_pc = "raised" => an_outcome = StageErrors[e].error
               /\ an_pc = "extract" =>
                      (StageErrors[e].error.kind = "ValueError" /\ an_outcome = NoResult)
    /\ (an_calls # <<>> /\ an_detector.client.api_key = <<>>) =>
           /\ Len(an_calls) = 1
           /\ an_answers = <<>>
           /\ an_pc = "raised"
           /\ an_outcome = StageRaised("AgentAPIError")
    /\ an_pc = "raised" => Len(an_calls) = Len(an_results) + 1

C2_Witness ==
    /\ an_pc = "raised"
    /\ Len(an_answers) = 3
    /\ an_answers[3] = Body(CompletionBody(JStr(ProseText)))
    /\ CallStages = << "S1", "Phase1", "Phase2" >>
    /\ an_outcome = RaisedValueError(ProseText)

(***************************************************************************)
(* Claims about _build_report, under SpecReport.                           *)
(***************************************************************************)
BothBuilt == rp_first.built /\ rp_second.built

ReportId(b) == Get(b.report, K.report_id, JNull).s

\* The number of inputs in which the two builds differ.
InputsChanged ==
    Changed(rp_first, rp_second.user_input, rp_second.s1_knowledge, rp_second.phase_1,
            rp_second.phase_2, rp_second.phase_3)

\* The text that is hashed for build b.
DigestOf(b) == DigestSrc(b.user_input, b.s1_knowledge, b.phase_1, b.phase_2, b.phase_3)

\* C5, as stated: two builds with equal values of the five inputs have the
\* same report_id, whatever the order of the keys, the output language and
\* the client; and two builds that differ in one stage result, the other four
\* inputs being equal, have different report_ids.
C5_ReportIdInjective ==
    BothBuilt =>
        /\ InputsChanged = 0 => ReportId(rp_first) = ReportId(rp_second)
        /\ (InputsChanged = 1 /\ rp_first.user_input = rp_second.user_input) =>
               ReportId(rp_first) # ReportId(rp_second)

\* C5, as the code has it: two builds with equal values of the five inputs
\* have the same report_id, whatever the order of the keys, the output
\* language and the client; two builds that differ in one stage result hash
\* different texts, and their report_ids, the first 12 hexadecimal digits of
\* the SHA-256 of those texts, are the same only for two texts whose digests
\* agree in these 12 digits.
C5_ReportIdOfInputs ==
    BothBuilt =>
        /\ InputsChanged = 0 =>
               /\ DigestOf(rp_first) = DigestOf(rp_second)
               /\ ReportId(rp_first) = ReportId(rp_second)
        /\ (InputsChanged = 1 /\ rp_first.user_input = rp_second.user_input) =>
               /\ DigestOf(rp_first) # DigestOf(rp_second)
               /\ ReportId(rp_first) = Sha256Hex12(DigestOf(rp_first))
               /\ ReportId(rp_second) = Sha256Hex12(DigestOf(rp_second))

C5_Witness ==
    /\ BothBuilt
    /\ InputsChanged = 0
    /\ rp_first.phase_3 # rp_second.phase_3
    /\ rp_first.detector.output_language # rp_second.detector.output_language
    /\ ReportId(rp_first) = ReportId(rp_second)

DiagnosisTypeOf(b) == Get(Get(b.report, K.paradox_diagnosis, JNull), K.type, JNull)

\* C7: in every report the type of the diagnosis is one of Antinomy,
\* Falsidical, Veridical, None, whatever mapping Phase 3 returned; it is None
\* when the Phase 3 result has no paradox_type or an empty one.
C7_TypeAmongFour ==
    rp_first.built =>
        /\ DiagnosisTypeOf(rp_first) \in
               { JStr(<<"A", "n", "t", "i", "n", "o", "m", "y">>), JStr(<<"F", "a", "l", "s", "i", "d", "i", "c", "a", "l">>), JStr(<<"V", "e", "r", "i", "d", "i", "c", "a", "l">>), JStr(<<"N", "o", "n", "e">>) }
        /\ (\/ ~HasKey(rp_first.phase_3.pairs, K.paradox_type)
            \/ Get(rp_first.phase_3, K.paradox_type, JNull) = JStr(<<>>))
               => DiagnosisTypeOf(rp_first) = JStr(<<"N", "o", "n", "e">>)

(***************************************************************************)
(* Claims about format_report, under SpecFormat.                           *)
(***************************************************************************)
\* text.split("\n")
SplitLines(text) ==
    LET cuts == { i \in 1..Len(text) : text[i] = "\n" }
        cut(k) == CHOOSE i \in cuts : Cardinality({ j \in cuts : j < i }) = k - 1
        first(k) == IF k = 1 THEN 1 ELSE cut(k - 1) + 1
        last(k) == IF k = Cardinality(cuts) + 1 THEN Len(text) ELSE cut(k) - 1
    IN  [k \in 1..(Cardinality(cuts) + 1) |-> SubSeq(text, first(k), last(k))]

HasLine(lines, line) == \E i \in 1..Len(lines) : lines[i] = line

\* The line after the label is the placeholder.
PlaceholderAfter(lines, label) ==
    \E i \in 1..(Len(lines) - 1) : lines[i] = label /\ lines[i + 1] \in { <<" ", " ", "-", " ", "N", "/", "A">>, <<"-", " ", "N", "/", "A">> }

\* A field of a section, the empty text or list when it is absent.
Field(section, key, default) ==
    Get(Get(fm_report, section, JDict(<<>>)), key, default)

\* The list fields of the report that hold texts, each with its label.
ListFields ==
    << [label |-> <<"-", " ", "C", "o", "r", "e", " ", "V", "a", "r", "i", "a", "b", "l", "e", "s", ":">>, value |-> Field(K.logical_breakdown, K.core_variables, JList(<<>>))],
       [label |-> <<"-", " ", "R", "e", "t", "r", "i", "e", "v", "e", "d", " ", "I", "n", "t", "e", "r", "n", "a", "l", " ", "K", "n", "o", "w", "l", "e", "d", "g", "e", " ", "(", "S", "1", ")", ":">>,
        value |-> Field(K.logical_breakdown, K.retrieved_internal_knowledge, JList(<<>>))],
       [label |-> <<"-", " ", "I", "n", "t", "e", "r", "n", "a", "l", " ", "K", "n", "o", "w", "l", "e", "d", "g", "e", " ", "U", "s", "e", "d", " ", "(", "P", "h", "a", "s", "e", " ", "I", ")", ":">>,
        value |-> Field(K.logical_breakdown, K.internal_knowledge_used, JList(<<>>))],
       [label |-> <<"-", " ", "K", "n", "o", "w", "l", "e", "d", "g", "e", " ", "G", "a", "p", "s", ":">>, value |-> Field(K.logical_breakdown, K.knowledge_gaps, JList(<<>>))],
       [label |-> <<"-", " ", "H", "i", "d", "d", "e", "n", " ", "A", "s", "s", "u", "m", "p", "t", "i", "o", "n", "s", ":">>,
        value |-> Field(K.logical_breakdown, K.hidden_assumptions, JList(<<>>))],
       [label |-> <<"-", " ", "R", "e", "a", "l", "i", "t", "y", " ", "G", "a", "p", "s", ":">>, value |-> Field(K.logical_breakdown, K.reality_gaps, JList(<<>>))],
       [label |-> <<"-", " ", "C", "o", "n", "t", "r", "a", "d", "i", "c", "t", "i", "o", "n", " ", "P", "a", "t", "h", ":">>,
        value |-> Field(K.paradox_diagnosis, K.contradiction_path, JList(<<>>))],
       [label |-> <<"4", ".", " ", "S", "U", "G", "G", "E", "S", "T", "E", "D", " ", "M", "I", "T", "I", "G", "A", "T", "I", "O", "N">>, value |-> Get(fm_report, K.suggested_mitigation, JList(<<>>))] >>

\* C10: for every report format_report renders the four sections in the
\* order Logical Breakdown, Stress Test Results, Paradox Diagnosis, Suggested
\* Mitigation, has one line for each item of every list field, and has the
\* placeholder N/A for every empty list field and every empty string field:
\* primary goal, core variables, reasoning and the fields of a branch.
C10_LayoutAndPlaceholders ==
    fm_pc = "done" =>
        LET lines == SplitLines(fm_text)
            branches == Get(fm_report, K.stress_test_results, JList(<<>>)).items
        IN  /\ \E a, b, c, d \in 1..Len(lines) :
                   /\ a < b /\ b < c /\ c < d
                   /\ lines[a] = <<"1", ".", " ", "L", "O", "G", "I", "C", "A", "L", " ", "B", "R", "E", "A", "K", "D", "O", "W", "N">>
                   /\ lines[b] = <<"2", ".", " ", "S", "T", "R", "E", "S", "S", " ", "T", "E", "S", "T", " ", "R", "E", "S", "U", "L", "T", "S", " ", "(", "P", "h", "a", "s", "e", " ", "I", "I", ")">>
                   /\ lines[c] = <<"3", ".", " ", "P", "A", "R", "A", "D", "O", "X", " ", "D", "I", "A", "G", "N", "O", "S", "I", "S", " ", "(", "P", "h", "a", "s", "e", " ", "I", "I", "I", ")">>
                   /\ lines[d] = <<"4", ".", " ", "S", "U", "G", "G", "E", "S", "T", "E", "D", " ", "M", "I", "T", "I", "G", "A", "T", "I", "O", "N">>
            /\ \A f \in 1..Len(ListFields) :
                   LET items == ListFields[f].value.items
                   IN  /\ \A i \in 1..Len(items) :
                              \/ HasLine(lines, <<" ", " ", "-", " ">> \o items[i].s)
                              \/ HasLine(lines, <<"-", " ">> \o items[i].s)
                       /\ items = <<>> =>
                              \/ PlaceholderAfter(lines, ListFields[f].label)
                              \/ HasLine(lines, ListFields[f].label \o <<" ", "N", "/", "A">>)
            /\ branches = <<>> => PlaceholderAfter(lines, <<"2", ".", " ", "S", "T", "R", "E", "S", "S", " ", "T", "E", "S", "T", " ", "R", "E", "S", "U", "L", "T", "S", " ", "(", "P", "h", "a", "s", "e", " ", "I", "I", ")">>)
            /\ Field(K.logical_breakdown, K.primary_goal, JStr(<<>>)) = JStr(<<>>) =>
                   HasLine(lines, <<"-", " ", "P", "r", "i", "m", "a", "r", "y", " ", "G", "o", "a", "l", ":", " ", "N", "/", "A">>)
            /\ Field(K.paradox_diagnosis, K.reasoning, JStr(<<>>)) = JStr(<<>>) =>
                   HasLine(lines, <<"-", " ", "R", "e", "a", "s", "o", "n", "i", "n", "g", ":", " ", "N", "/", "A">>)
            /\ \A i \in 1..Len(branches) :
                   /\ Get(branches[i], K.name, JStr(<<>>)) = JStr(<<>>) =>
                          HasLine(lines, <<"-", " ", "B", "r", "a", "n", "c", "h", " ">> \o IntToChars(i) \o <<":", " ", "N", "/", "A">>)
                   /\ Get(branches[i], K.result, JStr(<<>>)) = JStr(<<>>) =>
                          HasLine(lines, <<" ", " ", "R", "e", "s", "u", "l", "t", ":", " ", "N", "/", "A">>)
                   /\ Get(branches[i], K.goal_impact, JStr(<<>>)) = JStr(<<>>) =>
                          HasLine(lines, <<" ", " ", "G", "o", "a", "l", " ", "I", "m", "p", "a", "c", "t", ":", " ", "N", "/", "A">>)

(***************************************************************************)
(* Claims about the field normalizers, under SpecNormalize.                *)
(***************************************************************************)
\* The characters of text from its first to its last character that is not
\* whitespace; none when every character is whitespace.
Trimmed(text) ==
    LET solid == {i \in 1..Len(text) : text[i] \notin Whitespace}
    IN  IF solid = {} THEN <<>>
        ELSE SubSeq(text, CHOOSE i \in solid : \A j \in solid : i <= j,
                          CHOOSE i \in solid : \A j \in solid : i >= j)

\* The texts of the elements, trimmed, without those that are empty then.
TrimmedNonEmpty(elems) ==
    SelectSeq([i \in 1..Len(elems) |-> Trimmed(PyStr(elems[i]))], LAMBDA text : text # <<>>)

IsScalar(v) == v.t \in {"str", "int", "bool"}

\* C11: _as_string_list returns, for a list, exactly the trimmed elements
\* that are non-empty after trimming, in their order; for null, the empty
\* text or the empty list it returns the empty list; for a scalar it returns
\* the one trimmed text when that is non-empty and the empty list otherwise;
\* no element of a result is empty or starts or ends with whitespace.
C11_AsStringList ==
    (nz_pc = "done" /\ nz_fn = "_as_string_list") =>
        /\ nz_arg.t = "list" => nz_result = TrimmedNonEmpty(nz_arg.items)
        /\ (nz_arg.t = "null" \/ nz_arg = JStr(<<>>) \/ nz_arg = JList(<<>>)) => nz_result = <<>>
        /\ IsScalar(nz_arg) =>
              nz_result = IF Trimmed(PyStr(nz_arg)) # <<>> THEN << Trimmed(PyStr(nz_arg)) >>
                          ELSE <<>>
        /\ \A i \in 1..Len(nz_result) :
              /\ nz_result[i] # <<>>
              /\ nz_result[i][1] \notin Whitespace
              /\ nz_result[i][Len(nz_result[i])] \notin Whitespace

\* A list whose second element is blank and whose first has whitespace around
\* it: two texts come back, trimmed, in the order of the list.
C11_Witness ==
    /\ nz_pc = "done"
    /\ nz_fn = "_as_string_list"
    /\ nz_arg = JList(<< JStr(<<" ", "b", "\n">>), JStr(<<" ">>), JStr(<<"a">>) >>)
    /\ nz_result = << <<"b">>, <<"a">> >>

(***************************************************************************)
(* Claims about calls that share a client, under SpecShared.               *)
(***************************************************************************)
\* What a stage makes of an answer: chat raises, or _extract_json_dict
\* returns the result or raises.
StageResultOf(transport) ==
    LET raw == Receive(transport)
    IN  IF Raised(raw) THEN StageRaised(raw.kind) ELSE ExtractJsonDict(raw.text)

StageResults == [transport \in SharedAnswers |-> StageResultOf(transport)]

\* The report of a call that runs alone on the statement and is given the
\* four answers.
ReportAlone(user_input, answers) ==
    BuildReport(SomeDetector, user_input, StageResults[answers[1]].val,
                StageResults[answers[2]].val, StageResults[answers[3]].val,
                StageResults[answers[4]].val)

\* Each call holds the results of its own answers, sends the default
\* temperature of the configuration, and returns the report of its own
\* statement and answers; the direct chat call sends its own temperature.
OwnInputsOnly ==
    /\ \A t \in Threads :
        /\ \A k \in 1..Len(cc_results[t]) :
              cc_results[t][k] = StageResults[cc_answers[t][k]].val
        /\ \A k \in 1..Len(cc_requests[t]) :
              cc_requests[t][k].temperature = cc_detector.client.default_temperature
        /\ cc_pc[t] = "done" =>
              /\ Len(cc_answers[t]) = Len(StageOrder)
              /\ cc_outcome[t] = Returned(ReportAlone(ThreadInput[t], cc_answers[t]))
    /\ cc_chat.pc \in {"sent", "done"} => cc_chat.payload = cc_chat.temperature

\* C12: two analyze calls that run at once on one client, their steps
\* interleaved in any way, do not interfere: the report of each is the report
\* of its own statement and its own four answers; and no chat call, with or
\* without a temperature of its own, changes the configuration of the client.
C12_NoInterference ==
    /\ []OwnInputsOnly
    /\ [][cc_detector'.client = cc_detector.client]_vars

\* Both calls returned a report after running at the same time, on different
\* answers, and a direct chat call with a temperature other than the default
\* one has come back meanwhile.
C12_Witness ==
    /\ cc_overlap
    /\ \A t \in Threads : cc_pc[t] = "done"
    /\ cc_answers[1] # cc_answers[2]
    /\ cc_outcome[1] # cc_outcome[2]
    /\ cc_chat.pc = "done"
    /\ cc_chat.temperature # cc_detector.client.default_temperature

(***************************************************************************)
(* Claims about main, under SpecMain.                                      *)
(***************************************************************************)
\* The lines main printed that are of one of the given sorts.
Printed(whats) == SelectSeq(mn_stdout, LAMBDA line : line.what \in whats)

ThreeKinds == {"APIConfigError", "AgentAPIError", "ValueError"}

\* The configuration did not load, or a stage of analyze raised, with one of
\* the three kinds of error.
FailedWithOneOfThree ==
    \/ an_pc = "none" /\ mn_exc \in ThreeKinds
    \/ an_pc = "raised" /\ an_outcome.kind \in ThreeKinds

\* C13: when loading the configuration, a chat call or the extraction raises
\* APIConfigError, AgentAPIError or ValueError, main prints one error message
\* and no report, as JSON or as text, and returns a status other than 0; a
\* report is printed, and 0 returned, only when analyze went through its four
\* stages.
C13_ErrorsExitNonZero ==
    /\ (mn_pc = "exit" /\ FailedWithOneOfThree) =>
          /\ Len(Printed({"error"})) = 1
          /\ Printed({"json", "text"}) = <<>>
          /\ mn_exit.how = "return"
          /\ mn_exit.code # 0
    /\ (Printed({"json", "text"}) # <<>> \/ (mn_exit.how = "return" /\ mn_exit.code = 0)) =>
          /\ an_pc = "done"
          /\ Len(an_calls) = Len(StageOrder)
          /\ Len(an_results) = Len(StageOrder)
          /\ Len(Printed({"json", "text"})) = 1
          /\ Printed({"error"}) = <<>>
          /\ mn_exit = Return(0)

\* Phase 2 answered without an object: main printed the ValueError and
\* returned 1 after three chat calls.
C13_Witness ==
    /\ mn_pc = "exit"
    /\ an_pc = "raised"
    /\ an_outcome.kind = "ValueError"
    /\ Len(an_calls) = 3
    /\ Len(mn_stdout) = 1
    /\ mn_stdout[1].what = "error"
    /\ mn_exit = Return(1)

(***************************************************************************)
(* Claims about the prompts of the stages, under SpecPipeline.             *)
(***************************************************************************)
\* part in text
Contains(text, part) ==
    \E i \in 0..(Len(text) - Len(part)) : SubSeq(text, i + 1, i + Len(part)) = part

EndsWith(text, part) ==
    Len(text) >= Len(part) /\ SubSeq(text, Len(text) - Len(part) + 1, Len(text)) = part

\* The text of the prompt of the k-th chat call of analyze.
PromptOf(k) == PromptText(an_calls[k].user_prompt)

\* A stored result as a prompt shows it: json.dumps(result, indent=2).
Shown(result) == DumpsIndent(result, 0)

\* The prompt ends with the statement under its heading and holds the line
\* of the output language.
HoldsStatementAndLanguage(k) ==
    /\ EndsWith(PromptOf(k),
                <<"\n", "U", "s", "e", "r", " ", "s", "t", "a", "t", "e", "m", "e", "n", "t", ":",
                  "\n">> \o an_user_input)
    /\ Contains(PromptOf(k),
                <<"\n", "O", "u", "t", "p", "u", "t", " ", "l", "a", "n", "g", "u", "a", "g", "e",
                  ":", " ">> \o an_detector.output_language \o <<"\n">>)

\* The prompt holds the result under the heading.
HoldsUnder(k, heading, result) ==
    Contains(PromptOf(k), <<"\n">> \o heading \o <<"\n">> \o Shown(result) \o <<"\n">>)

HeadingS1 ==
    <<"S", "1", " ", "i", "n", "t", "e", "r", "n", "a", "l", " ", "k", "n", "o", "w", "l", "e",
      "d", "g", "e", " ", "r", "e", "t", "r", "i", "e", "v", "a", "l", ":">>

HeadingPhase1 == <<"P", "h", "a", "s", "e", " ", "I", " ", "r", "e", "s", "u", "l", "t", ":">>

HeadingPhase2 == <<"P", "h", "a", "s", "e", " ", "I", "I", " ", "r", "e", "s", "u", "l", "t", ":">>

\* C14 as stated: the prompt of each stage holds the stored results of all
\* the stages before it, the statement and the output language: that of
\* Phase 1 the S1 result, that of Phase 2 the S1 and Phase 1 results, that of
\* Phase 3 the S1, Phase 1 and Phase 2 results.
C14_AllPriorResults ==
    \A k \in 1..Len(an_calls) :
        /\ HoldsStatementAndLanguage(k)
        /\ \A j \in 1..(k - 1) : Contains(PromptOf(k), Shown(an_results[j]))

\* C14 as amended: the prompt of each stage holds the statement and the
\* output language; under their headings, that of Phase 1 holds the S1
\* result, that of Phase 2 the Phase 1 result, that of Phase 3 the Phase 1 and
\* Phase 2 results.
C14_ChainedResults ==
    \A k \in 1..Len(an_calls) :
        /\ HoldsStatementAndLanguage(k)
        /\ k = 2 => HoldsUnder(k, HeadingS1, an_results[1])
        /\ k = 3 => HoldsUnder(k, HeadingPhase1, an_results[2])
        /\ k = 4 => /\ HoldsUnder(k, HeadingPhase1, an_results[2])
                    /\ HoldsUnder(k, HeadingPhase2, an_results[3])

\* The four prompts were rendered, on three results no two of which that
\* follow each other are equal.
C14_Witness ==
    /\ Len(an_calls) = 4
    /\ an_results[1] # an_results[2]
    /\ an_results[2] # an_results[3]
    /\ HoldsUnder(4, HeadingPhase2, an_results[3])

(***************************************************************************)
(* Claims about the branch records of the report, under SpecNormalize.     *)
(***************************************************************************)
\* The entries of a list that are mappings, in the order of the list.
ObjectEntries(items) == SelectSeq(items, LAMBDA item : item.t = "dict")

\* The value under the key of a mapping, null when the key is absent.
Under(mapping, key) ==
    LET at == {i \in 1..Len(mapping.pairs) : mapping.pairs[i].k = key}
    IN  IF at = {} THEN JNull ELSE mapping.pairs[CHOOSE i \in at : TRUE].v

HasField(mapping, key) == \E i \in 1..Len(mapping.pairs) : mapping.pairs[i].k = key

\* The trimmed text of the field of a branch entry, none when it is absent.
FieldText(entry, key) ==
    IF HasField(entry, key) THEN Trimmed(PyStr(Under(entry, key))) ELSE <<>>

BranchFields == {K.name, K.result, K.goal_impact}

\* C15: stress_test_results of the report holds one record per entry of
\* Phase 2's branches that is a mapping, in the order of the list, and none
\* for the other entries; it is empty when branches is absent or no list;
\* every record has exactly the fields name, result and goal_impact, each the
\* trimmed text of the entry's field, or "N/A" when the field is absent or
\* its trimmed text is empty; no field of a record is the empty text.
C15_StressTestResults ==
    (nz_pc = "done" /\ nz_fn = "_build_report") =>
        LET records == Under(nz_result, K.stress_test_results)
            branches == Under(nz_arg, K.branches)
            objects == IF branches.t = "list" THEN ObjectEntries(branches.items) ELSE <<>>
        IN  /\ records.t = "list"
            /\ Len(records.items) = Len(objects)
            /\ \A i \in 1..Len(objects) :
                  LET record == records.items[i]
                  IN  /\ record.t = "dict"
                      /\ Len(record.pairs) = 3
                      /\ {record.pairs[j].k : j \in 1..3} = BranchFields
                      /\ \A key \in BranchFields :
                            /\ Under(record, key).t = "str"
                            /\ Under(record, key).s # <<>>
                            /\ Under(record, key).s =
                                  IF FieldText(objects[i], key) # <<>>
                                  THEN FieldText(objects[i], key)
                                  ELSE <<"N", "/", "A">>

\* A list of a text and of a mapping with a name in whitespace, an empty
\* result and a blank goal_impact: one record comes back, with the trimmed
\* name and N/A twice.
C15_Witness ==
    /\ nz_pc = "done"
    /\ nz_fn = "_build_report"
    /\ Under(nz_arg, K.branches) =
          JList(<< JStr(<<"x">>),
                   JDict(<< Pair(K.name, JStr(<<" ", "a", " ">>)), Pair(K.result, JStr(<<>>)),
                            Pair(K.goal_impact, JStr(<<" ">>)) >>) >>)
    /\ Under(nz_result, K.stress_test_results) =
          JList(<< JDict(<< Pair(K.name, JStr(<<"a">>)),
                            Pair(K.result, JStr(<<"N", "/", "A">>)),
                            Pair(K.goal_impact, JStr(<<"N", "/", "A">>)) >>) >>)

====
